---- MODULE Spec2Model ----
(***************************************************************************)
(* FAST-TransferLib: the unified transfer manager (method selection,       *)
(* fallback scoring, the prepare / transfer / cleanup flow) and the        *)
(* per-tool transfer providers it drives.                                  *)
(***************************************************************************)
EXTENDS Integers, Sequences, FiniteSets, TLC

VARIABLES
    platform,            \* os.platform() seen by the constructor
    initialized,         \* UnifiedTransferManager.initialized
    rsyncAvailable,      \* UnifiedTransferManager.rsyncAvailable
    availableProviders,  \* keys of the availableProviders Map, in insertion order
    op,                  \* the call in progress or last finished: "none", "select", "transfer"
    req,                 \* its arguments: [source, destination, options]
    sel,                 \* what selectTransferMethod produced for req
    pc,                  \* position inside transfer()
    attempt,             \* what the provider steps of this transfer() call produced
    calls,               \* provider methods invoked by this call, in order
    events,              \* events emitted by the manager during this call, in order
    spawned,             \* subprocesses started by the provider steps of this call
    child,               \* how the child process behind the transfer result ended
    thrown,              \* the error the catch block of transfer() holds
    outcome,             \* how the call ended: returned value or thrown error
    initPromise,         \* UnifiedTransferManager.initPromise: "null" or "promise"
    runs,                \* the invocations of initialize(), each at one of its await points
    invocations,         \* the caller's concurrent calls on one manager instance
    probes,              \* per tool: how often it was probed and what the probes answered
    listeners,           \* per provider: how many progress/error forwarders were registered
    now,                 \* Date.now()
    sessionCounter,      \* TransferSessionManager.sessionCounter
    activeSessions,      \* keys of TransferSessionManager.activeSessions
    issued,              \* the session ids startSession has returned, in order
    before,              \* activeSessions as the latest session call found it
    returned,            \* the latest session call and what it returned
    clipboard,           \* FileOperationsManager.clipboard
    operationCounter,    \* FileOperationsManager.operationCounter
    history,             \* the FileOperationsManager calls made so far, in order
    sourceFiles,         \* per clipboard source: are its files still in place
    builder,             \* the tool whose argument list is built
    given,               \* the options it is built from, dryRun left open
    built,               \* the lists built from them with dryRun=true and dryRun=false
    installEnv,          \* what the installer's probes of the machine find
    installAt,           \* attemptAutoInstall's position: idle, loop or returned
    methodsToTry,        \* the ordered list attemptAutoInstall loops over
    cursor,              \* index of the loop's next method
    attemptedMethods,    \* names pushed by the loop, in order
    executedCommands,    \* methods whose command was handed to execSync, in order
    verified,            \* the probes for rsync made after a command, in order
    lastError,           \* the loop's lastError
    installResult,       \* what attemptAutoInstall returned
    parser,              \* the tool whose captured output is normalized
    captured,            \* the output the tool's process left behind
    normalized,          \* the counts of the normalized result
    retryConfig,         \* retryFileOperation's config
    retryAt,             \* its position: idle, try, sleeping or done
    retryAttempt,        \* the loop's attempt
    operationCalls,      \* how each invocation of the operation ended, in order
    waits,               \* the delays slept, each with the number of invocations before it
    retryLastError,      \* the loop's lastError
    retryOutcome,        \* what retryFileOperation returned or threw
    paste,               \* the pasteFiles call in flight, seen at its awaits
    rsyncManager,        \* one RsyncManager: its fields and what its calls did
    sessionStats         \* one TransferSessionManager with the contents of its sessions

\* the state of lazy initialization seen at its await points
initVars == <<initPromise, runs, invocations, probes, listeners>>

\* TransferSessionManager and the clock its ids are drawn from
sessionVars == <<now, sessionCounter, activeSessions, issued, before, returned>>

\* FileOperationsManager and the files of the sources put on its clipboard
clipboardVars == <<clipboard, operationCounter, history, sourceFiles>>

\* the argument builders' inputs and outputs
argumentVars == <<builder, given, built>>

\* RsyncCompatibilityChecker.attemptAutoInstall
installVars == <<installEnv, installAt, methodsToTry, cursor, attemptedMethods,
                 executedCommands, verified, lastError, installResult>>

\* the result normalizers' input and output
parseVars == <<parser, captured, normalized>>

\* the components that are driven on their own
\* retryFileOperation
retryVars == <<retryConfig, retryAt, retryAttempt, operationCalls, waits, retryLastError,
               retryOutcome>>

\* the RsyncManager and the session statistics
standalone == <<rsyncManager, sessionStats>>

extras == <<parseVars, retryVars, paste, standalone>>

utils == <<sessionVars, clipboardVars, argumentVars, installVars, extras>>

\* the components a single transfer() or selectTransferMethod() call leaves alone
aux == <<initVars, utils>>

vars == <<platform, initialized, rsyncAvailable, availableProviders, op, req, sel,
          pc, attempt, calls, events, spawned, child, thrown, outcome, aux>>

----------------------------------------------------------------------------
(* Bounds of the model *)

\* largest exit code a child process is let to exit with
MaxExitCode == 8

\* how many of the six scoring option flags one request may set
MaxFlags == 6

\* how many calls a caller has in flight on one manager instance
MaxCalls == 2

\* how many sessions one TransferSessionManager is asked to start
MaxSessions == 3

\* how far the clock advances
MaxClock == 1

\* how many FileOperationsManager calls are made in a row
MaxOperations == 4

\* how many initialize() calls one RsyncManager is given
MaxInitializes == 3

\* how many rsync processes one RsyncManager is let to spawn
MaxSpawns == 2

\* how many sessions are started to be tracked
MaxTrackedSessions == 2

\* how many trackFileTransfer calls are made
MaxTracks == 2

----------------------------------------------------------------------------
(* Tools, platforms, capability registry *)

Platforms == {"win32", "darwin", "linux", "other"}

Tools == {"rsync", "robocopy", "xcopy", "ditto", "cp", "tar", "scp"}

\* initializePlatformProviders: the providers of a platform, in declaration order
PlatformProviders(p) ==
    CASE p = "win32"  -> <<"robocopy", "xcopy">>
      [] p = "darwin" -> <<"ditto", "cp", "scp">>
      [] p = "linux"  -> <<"cp", "tar", "scp">>
      [] OTHER        -> <<"cp">>

Caps(co, pr, re, de, sy, pe, ti, nw, au) ==
    [supportsCompression |-> co, supportsProgress |-> pr, supportsResume |-> re,
     supportsDelete |-> de, supportsSymlinks |-> sy, supportsPermissions |-> pe,
     supportsTimestamps |-> ti, supportsNetworkTransfer |-> nw,
     supportsAuthentication |-> au]

\* the capabilities field of each provider class
Capabilities(name) ==
    CASE name = "rsync"    -> Caps(TRUE, TRUE, TRUE, TRUE, TRUE, TRUE, TRUE, TRUE, TRUE)
      [] name = "robocopy" -> Caps(FALSE, TRUE, TRUE, TRUE, TRUE, TRUE, TRUE, TRUE, TRUE)
      [] name = "xcopy"    -> Caps(FALSE, FALSE, FALSE, FALSE, FALSE, FALSE, TRUE, TRUE, FALSE)
      [] name = "ditto"    -> Caps(TRUE, FALSE, FALSE, FALSE, TRUE, TRUE, TRUE, FALSE, FALSE)
      [] name = "cp"       -> Caps(FALSE, FALSE, FALSE, FALSE, TRUE, TRUE, TRUE, FALSE, FALSE)
      [] name = "tar"      -> Caps(TRUE, TRUE, FALSE, FALSE, TRUE, TRUE, TRUE, FALSE, FALSE)
      [] name = "scp"      -> Caps(TRUE, TRUE, FALSE, FALSE, FALSE, TRUE, TRUE, TRUE, TRUE)

----------------------------------------------------------------------------
(* Requests *)

\* A TransferTarget as the providers read it.  onDisk stands for the file
\* system's answer: existsSync(path) for a source, existsSync(dirname(path))
\* for a destination.
\* smb stands for protocol = 'smb'; mountPoint for the transient mountPoint field
\* being set; path is "given" as long as it is the path the caller passed.
Target(remote, host, disk, isSmb) ==
    [isRemote |-> remote, hasHost |-> host, onDisk |-> disk, smb |-> isSmb,
     mountPoint |-> FALSE, path |-> "given"]

LocalTargets == {Target(FALSE, FALSE, d, FALSE) : d \in BOOLEAN}
RemoteTargets == {Target(TRUE, h, FALSE, FALSE) : h \in BOOLEAN}
SmbTarget == Target(TRUE, TRUE, FALSE, TRUE)
Targets == LocalTargets \cup RemoteTargets

\* an optional boolean option: left out, true or false
OptBool == {"unset", "true", "false"}
Truthy(v) == v = "true"
NotFalse(v) == v # "false"

Strategies == {"fastest", "most-compatible", "preserve-metadata", "compress", "network"}

FlagNames == {"compress", "progress", "delete", "preservePerms", "preserveTimes", "preserveLinks"}

\* UnifiedTransferOptions, the fields selection and the transfer flow read
Options(fn, pr, pm, anf, st, flags, dry, creds) ==
    [forceNative |-> fn, preferRsync |-> pr, preferredMethod |-> pm,
     allowNetworkFallback |-> anf, strategy |-> st,
     compress |-> "compress" \in flags, progress |-> "progress" \in flags,
     delete |-> "delete" \in flags, preservePerms |-> "preservePerms" \in flags,
     preserveTimes |-> "preserveTimes" \in flags, preserveLinks |-> "preserveLinks" \in flags,
     dryRun |-> dry, hasCredentials |-> creds]

FlagSets == {f \in SUBSET FlagNames : Cardinality(f) <= MaxFlags}

\* The options selectTransferMethod is exercised with: every combination of the
\* routing options under every strategy, and every strategy with the scoring
\* flags set when native tools are forced (the fallback path, whatever rsync is).
RoutingOptions ==
    {Options(fn, pr, pm, anf, st, {}, FALSE, FALSE) :
        fn \in BOOLEAN, pr \in OptBool, pm \in Tools \cup {"none"}, anf \in OptBool,
        st \in Strategies \cup {"unset"}}

ScoringOptions ==
    {Options(TRUE, "unset", "none", anf, st, fl, FALSE, FALSE) :
        anf \in OptBool, st \in Strategies \cup {"unset"}, fl \in FlagSets}

SelectOptions == RoutingOptions \cup ScoringOptions

----------------------------------------------------------------------------
(* Target Validator *)

\* the checks shared by cp, tar, ditto, robocopy and xcopy
LocalPathErrors(source, destination) ==
    (IF ~source.isRemote /\ ~source.onDisk THEN {"source-missing"} ELSE {})
    \cup (IF ~destination.isRemote /\ ~destination.onDisk THEN {"destination-parent-missing"} ELSE {})

ScpErrors(source, destination) ==
    (IF ~source.isRemote /\ ~destination.isRemote THEN {"needs-remote-target"} ELSE {})
    \cup (IF source.isRemote /\ ~source.hasHost THEN {"source-missing-host"} ELSE {})
    \cup (IF destination.isRemote /\ ~destination.hasHost THEN {"destination-missing-host"} ELSE {})

\* provider.validateTargets: the errors list
ValidationErrors(name, source, destination) ==
    CASE name = "rsync" -> {}
      [] name = "scp"   -> ScpErrors(source, destination)
      [] OTHER          -> LocalPathErrors(source, destination)

validateTargets(name, source, destination) ==
    [valid |-> ValidationErrors(name, source, destination) = {},
     errors |-> ValidationErrors(name, source, destination)]

----------------------------------------------------------------------------
(* Scoring / selection engine *)

Pts(cond, n) == IF cond THEN n ELSE 0

StrategyScore(name, caps, strategy, isNetworkTransfer) ==
    CASE strategy = "fastest" ->
            Pts(name = "robocopy", 10) + Pts(name = "rsync", 15)
            + Pts(caps.supportsProgress, 3) + Pts(caps.supportsResume, 5)
      [] strategy = "most-compatible" ->
            Pts(name = "cp", 10) + Pts(name = "xcopy", 8)
            + Pts(~caps.supportsNetworkTransfer /\ ~isNetworkTransfer, 5)
      [] strategy = "preserve-metadata" ->
            Pts(caps.supportsPermissions, 5) + Pts(caps.supportsTimestamps, 5)
            + Pts(caps.supportsSymlinks, 3) + Pts(name = "ditto", 8)
            + Pts(name = "robocopy", 7)
      [] strategy = "compress" ->
            Pts(caps.supportsCompression, 10) + Pts(name = "tar", 8)
            + Pts(name = "ditto", 6)
      [] strategy = "network" ->
            Pts(caps.supportsNetworkTransfer, 10) + Pts(caps.supportsAuthentication, 5)
            + Pts(name = "scp", 8) + Pts(name = "robocopy", 6)
      [] OTHER -> 0

\* the permission penalty tested without its negation
calculateProviderScore_PenalisesSupport(name, strategy, options, isNetworkTransfer) ==
    LET caps == Capabilities(name) IN
    StrategyScore(name, caps, strategy, isNetworkTransfer)
    + Pts(options.compress /\ caps.supportsCompression, 3)
    + Pts(options.progress /\ caps.supportsProgress, 2)
    + Pts(options.delete /\ caps.supportsDelete, 2)
    + Pts(isNetworkTransfer /\ caps.supportsNetworkTransfer, 5)
    - Pts(options.preservePerms /\ caps.supportsPermissions, 5)
    - Pts(options.preserveTimes /\ ~caps.supportsTimestamps, 3)
    - Pts(options.preserveLinks /\ ~caps.supportsSymlinks, 2)

calculateProviderScore(name, strategy, options, isNetworkTransfer) ==
    LET caps == Capabilities(name) IN
    StrategyScore(name, caps, strategy, isNetworkTransfer)
    + Pts(options.compress /\ caps.supportsCompression, 3)
    + Pts(options.progress /\ caps.supportsProgress, 2)
    + Pts(options.delete /\ caps.supportsDelete, 2)
    + Pts(isNetworkTransfer /\ caps.supportsNetworkTransfer, 5)
    - Pts(options.preservePerms /\ ~caps.supportsPermissions, 5)
    - Pts(options.preserveTimes /\ ~caps.supportsTimestamps, 3)
    - Pts(options.preserveLinks /\ ~caps.supportsSymlinks, 2)

IsNetworkTransfer(source, destination) == source.isRemote \/ destination.isRemote

\* the default written 'fastest'
EffectiveStrategy_DefaultsToFastest(options) ==
    IF options.strategy = "unset" THEN "fastest" ELSE options.strategy

EffectiveStrategy(options) ==
    IF options.strategy = "unset" THEN "most-compatible" ELSE options.strategy

\* the filter testing allowNetworkFallback without its negation
SkippedByNetworkFilter_Inverted(name, source, destination, options) ==
    /\ IsNetworkTransfer(source, destination)
    /\ ~Capabilities(name).supportsNetworkTransfer
    /\ Truthy(options.allowNetworkFallback)

\* the loop's `continue` on a provider that cannot cross hosts
SkippedByNetworkFilter(name, source, destination, options) ==
    /\ IsNetworkTransfer(source, destination)
    /\ ~Capabilities(name).supportsNetworkTransfer
    /\ ~Truthy(options.allowNetworkFallback)

\* does the loop push this provider onto suitableProviders
Suitable(name, source, destination, options) ==
    /\ ~SkippedByNetworkFilter(name, source, destination, options)
    /\ validateTargets(name, source, destination).valid

RECURSIVE CollectSuitable(_, _, _, _)
CollectSuitable(avail, source, destination, options) ==
    IF avail = <<>> THEN <<>>
    ELSE LET name == Head(avail)
             rest == CollectSuitable(Tail(avail), source, destination, options)
         IN IF Suitable(name, source, destination, options)
               THEN <<[provider |-> name,
                       score |-> calculateProviderScore(name, EffectiveStrategy(options),
                                    options, IsNetworkTransfer(source, destination))]>> \o rest
               ELSE rest

\* a sort that places an element ahead of its equals: the later of two tied
\* providers ends up first
RECURSIVE InsertByScore_LaterWinsTies(_, _)
InsertByScore_LaterWinsTies(e, sorted) ==
    IF sorted = <<>> THEN <<e>>
    ELSE IF Head(sorted).score > e.score
            THEN <<Head(sorted)>> \o InsertByScore_LaterWinsTies(e, Tail(sorted))
            ELSE <<e>> \o sorted

\* Array.prototype.sort((a, b) => b.score - a.score): stable, highest first
RECURSIVE InsertByScore(_, _)
InsertByScore(e, sorted) ==
    IF sorted = <<>> THEN <<e>>
    ELSE IF Head(sorted).score >= e.score
            THEN <<Head(sorted)>> \o InsertByScore(e, Tail(sorted))
            ELSE <<e>> \o sorted

\* the comparator written a.score - b.score: lowest first
RECURSIVE SortByScore_Ascending(_)
SortByScore_Ascending(s) ==
    IF s = <<>> THEN <<>>
    ELSE LET rest == SortByScore_Ascending(Tail(s)) IN
         IF rest # <<>> /\ rest[1].score < Head(s).score
            THEN <<rest[1]>> \o SortByScore_Ascending(<<Head(s)>> \o Tail(rest))
            ELSE <<Head(s)>> \o rest

RECURSIVE SortByScore(_)
SortByScore(s) ==
    IF s = <<>> THEN <<>>
    ELSE InsertByScore(s[Len(s)], SortByScore(SubSeq(s, 1, Len(s) - 1)))

NoProvider == "none"

\* an empty suitableProviders answered with the first available provider
\* instead of the throw
selectFallbackProvider_DowngradesSilently(avail, source, destination, options) ==
    LET suitableProviders == CollectSuitable(avail, source, destination, options) IN
    IF Len(suitableProviders) = 0
       THEN IF avail = <<>> THEN NoProvider ELSE avail[1]
       ELSE SortByScore(suitableProviders)[1].provider

\* selectFallbackProvider: the chosen provider, or NoProvider when it throws
selectFallbackProvider(avail, source, destination, options) ==
    LET suitableProviders == CollectSuitable(avail, source, destination, options) IN
    IF Len(suitableProviders) = 0 THEN NoProvider
    ELSE SortByScore(suitableProviders)[1].provider

NoSuitableError == "No suitable transfer providers available for the given targets and options"

Selection(p, why, ra, fb) ==
    [kind |-> "ok", provider |-> p, reason |-> why, rsyncAvailable |-> ra, fallbackUsed |-> fb]

SelectionError ==
    [kind |-> "error", provider |-> NoProvider, reason |-> NoSuitableError,
     rsyncAvailable |-> FALSE, fallbackUsed |-> FALSE]

FallbackSelection(avail, ra, source, destination, options, why) ==
    LET p == selectFallbackProvider(avail, source, destination, options) IN
    IF p = NoProvider THEN SelectionError ELSE Selection(p, why, ra, TRUE)

InSeq(x, s) == \E i \in 1..Len(s) : s[i] = x

\* the preference looked up without asking whether the tool was found available
PreferredTaken_SkipsAvailability(avail, source, destination, options) ==
    /\ options.preferredMethod # "none"
    /\ validateTargets(options.preferredMethod, source, destination).valid

\* the explicit-preference branch is taken
PreferredTaken(avail, source, destination, options) ==
    /\ options.preferredMethod # "none"
    /\ InSeq(options.preferredMethod, avail)
    /\ validateTargets(options.preferredMethod, source, destination).valid

\* the rsync branch written `if (this.rsyncAvailable)`, preferRsync not consulted
selectTransferMethod_IgnoresPreferRsync(avail, ra, source, destination, options) ==
    IF options.forceNative
       THEN FallbackSelection(avail, ra, source, destination, options,
                              "Native tools forced by user")
    ELSE IF PreferredTaken(avail, source, destination, options)
       THEN Selection(options.preferredMethod, "User preferred method", ra, TRUE)
    ELSE IF ra
       THEN Selection("rsync", "Rsync is available and preferred", TRUE, FALSE)
    ELSE FallbackSelection(avail, ra, source, destination, options, "Rsync not available")

\* the rsync branch placed ahead of the explicit preference
selectTransferMethod_RsyncFirst(avail, ra, source, destination, options) ==
    IF options.forceNative
       THEN FallbackSelection(avail, ra, source, destination, options,
                              "Native tools forced by user")
    ELSE IF ra /\ NotFalse(options.preferRsync)
       THEN Selection("rsync", "Rsync is available and preferred", TRUE, FALSE)
    ELSE IF PreferredTaken(avail, source, destination, options)
       THEN Selection(options.preferredMethod, "User preferred method", ra, TRUE)
    ELSE FallbackSelection(avail, ra, source, destination, options,
                           IF ra THEN "Fallback method preferred" ELSE "Rsync not available")

\* the two reasons of the last branch swapped
selectTransferMethod_SwapsFallbackReasons(avail, ra, source, destination, options) ==
    IF options.forceNative
       THEN FallbackSelection(avail, ra, source, destination, options,
                              "Native tools forced by user")
    ELSE IF PreferredTaken(avail, source, destination, options)
       THEN Selection(options.preferredMethod, "User preferred method", ra, TRUE)
    ELSE IF ra /\ NotFalse(options.preferRsync)
       THEN Selection("rsync", "Rsync is available and preferred", TRUE, FALSE)
    ELSE FallbackSelection(avail, ra, source, destination, options,
                           IF ra THEN "Rsync not available" ELSE "Fallback method preferred")

\* selectTransferMethod, after ensureInitialized
selectTransferMethod(avail, ra, source, destination, options) ==
    IF options.forceNative
       THEN FallbackSelection(avail, ra, source, destination, options,
                              "Native tools forced by user")
    ELSE IF PreferredTaken(avail, source, destination, options)
       THEN Selection(options.preferredMethod, "User preferred method", ra, TRUE)
    ELSE IF ra /\ NotFalse(options.preferRsync)
       THEN Selection("rsync", "Rsync is available and preferred", TRUE, FALSE)
    ELSE FallbackSelection(avail, ra, source, destination, options,
                           IF ra THEN "Fallback method preferred" ELSE "Rsync not available")

----------------------------------------------------------------------------
(* Providers: prepare, transfer, cleanup *)

\* How a child process ended: 'close' with an exit code, or with code = null
\* when a signal (a kill, a timeout of the spawning layer) terminated it.
ExitCodes == 0..MaxExitCode
ChildCloses ==
    {[signalled |-> FALSE, code |-> c, missing |-> FALSE] : c \in ExitCodes}
    \cup {[signalled |-> TRUE, code |-> 0, missing |-> FALSE]}

\* The tool's binary is gone at execution time.  Spawned through a shell
\* (shell: true, execSync) the shell starts and exits with its
\* command-not-found status; spawned directly the child emits 'error' and then
\* closes with the negative errno as its code.
ShellNotFound(plat) ==
    {[signalled |-> FALSE, code |-> c, missing |-> TRUE] :
        c \in IF plat = "win32" THEN {1, 9009} ELSE {127}}

SpawnFailed == [signalled |-> FALSE, code |-> -2, missing |-> TRUE]

\* `code || 0`
CodeOrZero(close) == IF close.signalled THEN 0 ELSE close.code

\* A failed connection step calls emitError and returns false; emitError throws
\* instead when no 'error' listener is attached to the manager the event is
\* forwarded to.
FailedStep == {"false", "throw"}

PrepareResult(r, sp, source, destination) ==
    [result |-> r, spawns |-> sp, source |-> source, destination |-> destination]

\* ScpProvider.prepare: one ssh connection test per remote target with a host
ScpPrepare(source, destination) ==
    LET n == (IF source.isRemote /\ source.hasHost THEN 1 ELSE 0)
             + (IF destination.isRemote /\ destination.hasHost THEN 1 ELSE 0)
        ssh(k) == [i \in 1..k |-> "ssh"]
    IN {PrepareResult("true", ssh(n), source, destination)}
       \cup {PrepareResult(r, ssh(k), source, destination) : r \in FailedStep, k \in 1..n}

\* RobocopyProvider.prepare: net use when credentials are given for a remote destination
RobocopyPrepare(source, destination, options) ==
    IF destination.isRemote /\ options.hasCredentials
       THEN IF ~destination.hasHost
               THEN {PrepareResult(r, <<>>, source, destination) : r \in FailedStep}
               ELSE {PrepareResult("true", <<"net use">>, source, destination)}
                    \cup {PrepareResult(r, <<"net use">>, source, destination) : r \in FailedStep}
       ELSE {PrepareResult("true", <<>>, source, destination)}

Mountable(t) == t.isRemote /\ t.smb /\ t.hasHost
Mounted(t) == [t EXCEPT !.mountPoint = TRUE]

\* target.path = mountPoint, restored nowhere
Repointed(t) == [t EXCEPT !.path = "mountPoint"]

\* DittoProvider.prepareMountPoints for one target: mkdir, then mount, then the
\* target's path is pointed at the mount point
MountOne(t) ==
    IF ~Mountable(t) THEN {[ok |-> TRUE, spawns |-> <<>>, target |-> t]}
    ELSE {[ok |-> TRUE, spawns |-> <<"mkdir", "mount">>, target |-> Repointed(Mounted(t))],
          [ok |-> FALSE, spawns |-> <<"mkdir">>, target |-> Mounted(t)],
          [ok |-> FALSE, spawns |-> <<"mkdir", "mount">>, target |-> Mounted(t)]}

\* DittoProvider.prepare
DittoPrepare(source, destination) ==
    IF ~(source.isRemote \/ destination.isRemote)
       THEN {PrepareResult("true", <<>>, source, destination)}
    ELSE LET viaSource == MountOne(source) IN
         {PrepareResult(r, s.spawns, s.target, destination) :
              r \in FailedStep, s \in {x \in viaSource : ~x.ok}}
         \cup UNION {
              {PrepareResult("true", s.spawns \o d.spawns, s.target, d.target) :
                   d \in {x \in MountOne(destination) : x.ok}}
              \cup {PrepareResult(r, s.spawns \o d.spawns, s.target, d.target) :
                   r \in FailedStep, d \in {x \in MountOne(destination) : ~x.ok}}
              : s \in {x \in viaSource : x.ok}}

\* provider.prepare: the possible results, the subprocesses started, the targets after it
PrepareOutcomes(name, source, destination, options) ==
    CASE name = "scp"      -> ScpPrepare(source, destination)
      [] name = "robocopy" -> RobocopyPrepare(source, destination, options)
      [] name = "ditto"    -> DittoPrepare(source, destination)
      [] OTHER             -> {PrepareResult("true", <<>>, source, destination)}

\* A TransferResult.  output: "would-execute" for the message holding the built
\* argument list, "would-create-archive" for tar's dry-run message, "captured" for
\* the child's output, "" for none.
\* every provider's result written with `fallbackUsed: true`, the wrapper's too
Result_AlwaysFallback(ok, code, out, tool) ==
    [kind |-> "result", success |-> ok, exitCode |-> code, output |-> out,
     method |-> tool, fallbackUsed |-> TRUE]

Result(ok, code, out, tool) ==
    [kind |-> "result", success |-> ok, exitCode |-> code, output |-> out,
     method |-> tool, fallbackUsed |-> tool # "rsync"]

NoResult == [kind |-> "none"]

\* instead of a result: an 'error' event nobody listens for is thrown from the
\* emitting tick, outside every promise and try block
Uncaught == [kind |-> "uncaught"]

\* no child process was waited for
NoChild == [signalled |-> FALSE, code |-> -1, missing |-> FALSE]

\* what one provider.transfer did: its result, the subprocesses it started, and
\* how the child that decided the result ended
Ran(res, sp, close) == [result |-> res, spawns |-> sp, child |-> close]

\* executeCp, executeTar, executeScp, executeDitto, executeRobocopy resolve on 'close'
ExecuteSpawn(close) == [exitCode |-> CodeOrZero(close), output |-> "captured"]

\* the result built from a spawned child: zero is success, for robocopy below 8
SpawnedTransfer(name, close) ==
    LET r == ExecuteSpawn(close) IN
    Ran(Result(IF name = "robocopy" THEN r.exitCode < 8 ELSE r.exitCode = 0,
               r.exitCode, r.output, name), <<name>>, close)

\* a directly spawned child (tar, scp, ditto) whose spawn fails: no 'error'
\* listener is attached, so the event is thrown as an uncaught exception; a
\* process that survives it sees the 'close' that follows
UnhandledSpawnError(name) ==
    {Ran(Uncaught, <<name>>, SpawnFailed), SpawnedTransfer(name, SpawnFailed)}

\* the result built around execSync: it throws on a failing status or a timeout
ExecSyncTransfer(name, close) ==
    IF ~close.signalled /\ close.code = 0
       THEN Ran(Result(TRUE, 0, "captured", name), <<name>>, close)
       ELSE Ran(Result(FALSE, IF CodeOrZero(close) = 0 THEN -1 ELSE close.code, "", name),
                <<name>>, close)

\* TarProvider.transfer without dryRun: create the archive, stat the destination,
\* extract when it is a directory.  A statSync that throws ends in the catch
\* block (its exitCode is the error's code, written -1 here).
TarTransfer ==
    {Ran(Result(FALSE, CodeOrZero(c), "captured", "tar"), <<"tar">>, c) :
         c \in {x \in ChildCloses : CodeOrZero(x) # 0}}
    \cup UNION {{Ran(Result(FALSE, -1, "", "tar"), <<"tar">>, c),
                 Ran(Result(TRUE, 0, "captured", "tar"), <<"tar">>, c)} :
                c \in {x \in ChildCloses : CodeOrZero(x) = 0}}
    \cup {Ran(Result(CodeOrZero(c) = 0, CodeOrZero(c), "captured", "tar"),
              <<"tar", "tar", "rm">>, c) : c \in ChildCloses}
    \cup UnhandledSpawnError("tar")

\* RsyncManager.sync: the 'close' handler resolves with success = (exitCode === 0)
\* and exitCode || 0; the 'error' handler builds the exit code -1 result, emits
\* 'error' on the RsyncManager and only then resolves.  listening: an 'error'
\* listener is attached to the RsyncManager; without one the emit throws.
sync(listening, close) ==
    IF close.missing
       THEN IF listening
               THEN {Result(FALSE, -1, "", "rsync")}
               ELSE {Uncaught, Result(FALSE, CodeOrZero(close), "captured", "rsync")}
       ELSE {Result(~close.signalled /\ close.code = 0, CodeOrZero(close), "captured",
                    "rsync")}

\* RsyncWrapperProvider.transfer: initialize the fresh RsyncManager (a probe),
\* then RsyncManager.transfer -> sync spawns rsync, with --dry-run under dryRun
RsyncTransfer ==
    {Ran(Result(FALSE, 1, "", "rsync"), <<"rsync --version">>, NoChild)}
    \cup UNION {{Ran(r, <<"rsync --version", "rsync">>, c) : r \in sync(FALSE, c)} :
                c \in ChildCloses \cup {SpawnFailed}}

\* the dryRun branch of the fallback providers' transfer
DryRunTransfer(name, source, destination) ==
    IF name = "robocopy" /\ ((source.isRemote /\ ~source.hasHost)
                              \/ (destination.isRemote /\ ~destination.hasHost))
       THEN {Ran(Result(FALSE, -1, "", name), <<>>, NoChild)}
    ELSE IF name = "tar"
       THEN {Ran(Result(TRUE, 0, "would-create-archive", name), <<>>, NoChild)}
    ELSE {Ran(Result(TRUE, 0, "would-execute", name), <<>>, NoChild)}

\* provider.transfer: the possible results and the subprocesses started
TransferOutcomes(name, plat, source, destination, options) ==
    IF name = "rsync" THEN RsyncTransfer
    ELSE IF options.dryRun THEN DryRunTransfer(name, source, destination)
    ELSE IF name = "robocopy" /\ ((source.isRemote /\ ~source.hasHost)
                                   \/ (destination.isRemote /\ ~destination.hasHost))
       THEN {Ran(Result(FALSE, -1, "", name), <<>>, NoChild)}
    ELSE IF name = "tar" THEN TarTransfer
    ELSE IF name = "xcopy" \/ (name = "cp" /\ plat = "darwin")
       THEN {ExecSyncTransfer(name, c) : c \in ChildCloses \cup ShellNotFound(plat)}
    ELSE IF name \in {"scp", "ditto"}
       THEN {SpawnedTransfer(name, c) : c \in ChildCloses} \cup UnhandledSpawnError(name)
    ELSE {SpawnedTransfer(name, c) : c \in ChildCloses \cup ShellNotFound(plat)}

\* provider.cleanup: the subprocesses it may start
CleanupSpawns(name, source, destination) ==
    CASE name = "robocopy" ->
            IF destination.isRemote /\ destination.hasHost
               THEN {<<"net use /delete">>} ELSE {<<>>}
      [] name = "ditto" ->
            LET one(t) == IF t.mountPoint THEN {<<"umount">>, <<"umount", "rmdir">>}
                                          ELSE {<<>>}
            IN {a \o b : a \in one(source), b \in one(destination)}
      [] OTHER -> {<<>>}

\* provider.cleanup(): Promise<void> settles or rejects
CleanupResults == {"ok", "throw"}

----------------------------------------------------------------------------
(* UnifiedTransferManager *)

\* one invocation of a provider method and how it ended
Call(name, step, result) == [provider |-> name, step |-> step, result |-> result]

Request(source, destination, options) ==
    [source |-> source, destination |-> destination, options |-> options]

NoRequest == [none |-> TRUE]
NoSelection == [kind |-> "none"]
NoOutcome == [kind |-> "none"]
Returned(v) == [kind |-> "returned", value |-> v]
Threw(e) == [kind |-> "threw", error |-> e]

PrepareFailedError == "Failed to prepare transfer"
ProviderError == "error thrown by the provider"
CleanupError == "error thrown by cleanup"
NoError == ""

Filter(s, keep) == SelectSeq(s, LAMBDA x : x \in keep)

\* per tool: how often it was probed and whether a probe found it
NoProbe == [count |-> 0, ok |-> FALSE]

\* no initialize() has been called on the manager
InitializationIdle ==
    /\ initPromise = "null"
    /\ runs = <<>>
    /\ invocations = <<>>
    /\ probes = [t \in Tools |-> NoProbe]
    /\ listeners = [t \in Tools |-> 0]

Null == [null |-> TRUE]

\* a fresh TransferSessionManager
SessionsIdle ==
    /\ now = 0
    /\ sessionCounter = 0
    /\ activeSessions = {}
    /\ issued = <<>>
    /\ before = {}
    /\ returned = Null

\* the sources files are copied or cut from: a local and a remote directory
ClipboardSources == {Target(FALSE, FALSE, TRUE, FALSE), Target(TRUE, TRUE, FALSE, FALSE)}

\* FileOperationsManager's static fields as the module is loaded
ClipboardIdle ==
    /\ clipboard = Null
    /\ operationCounter = 0
    /\ history = <<>>
    /\ sourceFiles = [s \in ClipboardSources |-> TRUE]

\* no argument list has been asked for
ArgumentsIdle ==
    /\ builder = "none"
    /\ given = Null
    /\ built = Null

\* attemptAutoInstall has not been called
InstallIdle ==
    /\ installEnv = Null
    /\ installAt = "idle"
    /\ methodsToTry = <<>>
    /\ cursor = 1
    /\ attemptedMethods = <<>>
    /\ executedCommands = <<>>
    /\ verified = <<>>
    /\ lastError = ""
    /\ installResult = Null

\* no output has been normalized
ParseIdle ==
    /\ parser = "none"
    /\ captured = Null
    /\ normalized = Null

\* retryFileOperation has not been called
RetryIdle ==
    /\ retryConfig = Null
    /\ retryAt = "idle"
    /\ retryAttempt = 0
    /\ operationCalls = <<>>
    /\ waits = <<>>
    /\ retryLastError = Null
    /\ retryOutcome = Null

\* a pasteFiles call: its position, whether a session manager was passed, the
\* session it started, the operation whose files it handed to transfer(), the
\* operation it handed to deleteSourceFiles, the endSession calls it made and
\* how it ended
PasteCall(at, withSessionManager, session, transferred, deleted, ends, settled) ==
    [at |-> at, withSessionManager |-> withSessionManager, session |-> session,
     transferred |-> transferred, deleted |-> deleted, ends |-> ends,
     outcome |-> settled]

NoPaste == PasteCall("idle", FALSE, Null, Null, Null, 0, NoOutcome)

PasteIdle == paste = NoPaste

\* new RsyncManager(): compatibilityResult = null, isInitialized = false; with
\* it the initialize() calls begun and in flight, how the latest one to complete
\* ended, the latest transfer call and the rsync processes spawned
ConstructedRsyncManager ==
    [compatibilityResult |-> Null, isInitialized |-> FALSE,
     begun |-> 0, initializing |-> 0, lastInitialize |-> "none",
     lastCall |-> Null, spawns |-> 0]

ReadinessIdle == rsyncManager = ConstructedRsyncManager

\* new TransferSessionManager(): no active session, sessionCounter = 0; with it
\* the trackFileTransfer calls made, the number of events emitted and the
\* latest call
ConstructedSessionManager ==
    [activeSessions |-> <<>>, sessionCounter |-> 0, tracks |-> 0, emitted |-> 0,
     latest |-> Null]

StatsIdle == sessionStats = ConstructedSessionManager

StandaloneIdle == ReadinessIdle /\ StatsIdle

ExtrasIdle == ParseIdle /\ RetryIdle /\ PasteIdle /\ StandaloneIdle

\* the manager and the utilities as they are constructed
Constructed ==
    /\ platform \in Platforms
    /\ initialized = FALSE
    /\ rsyncAvailable = FALSE
    /\ availableProviders = <<>>
    /\ op = "none"
    /\ req = NoRequest
    /\ sel = NoSelection
    /\ pc = "idle"
    /\ attempt = NoResult
    /\ calls = <<>>
    /\ events = <<>>
    /\ spawned = <<>>
    /\ child = NoChild
    /\ thrown = NoError
    /\ outcome = NoOutcome
    /\ InitializationIdle
    /\ SessionsIdle
    /\ ClipboardIdle

Init == Constructed /\ ArgumentsIdle /\ InstallIdle /\ ExtrasIdle

\* what the availability probes of one initialization may answer
ProbeResults(plat) ==
    SUBSET {PlatformProviders(plat)[i] : i \in 1..Len(PlatformProviders(plat))}

\* initialize(): probe rsync, then every platform provider in declaration order.
\* It runs once per manager: called by the caller (createUnifiedTransferManager)
\* or awaited through ensureInitialized() at the head of selectTransferMethod
\* and transfer, whose bodies run only after it has resolved.
Initialize ==
    /\ op = "none"
    /\ ~initialized
    /\ \E rsyncFound \in BOOLEAN, found \in ProbeResults(platform) :
          /\ rsyncAvailable' = rsyncFound
          /\ availableProviders' = Filter(PlatformProviders(platform), found)
    /\ initialized' = TRUE
    /\ UNCHANGED <<platform, op, req, sel, pc, attempt, calls, events, spawned, child,
                   thrown, outcome, aux>>

\* selectTransferMethod(source, destination, options), a caller's call
SelectTransferMethod ==
    /\ op = "none"
    /\ initialized
    /\ \E source \in Targets, destination \in Targets, options \in SelectOptions :
          LET s == selectTransferMethod(availableProviders, rsyncAvailable,
                                        source, destination, options)
          IN /\ req' = Request(source, destination, options)
             /\ sel' = s
             /\ outcome' = IF s.kind = "error" THEN Threw(s.reason) ELSE Returned(s)
    /\ op' = "select"
    /\ UNCHANGED <<platform, initialized, rsyncAvailable, availableProviders,
                   pc, attempt, calls, events, spawned, child, thrown, aux>>

NextSelect == Initialize \/ SelectTransferMethod

SpecSelect == Init /\ [][NextSelect]_vars

\* The requests transfer() is exercised with: every pair of targets, an smb
\* share as destination included, every preferredMethod, with and without
\* allowNetworkFallback, dryRun and credentials.
TransferDestinations == Targets \cup {SmbTarget}

TransferOptions ==
    {Options(FALSE, "unset", pm, anf, "unset", {}, dry, creds) :
        pm \in Tools \cup {"none"}, anf \in {"unset", "true"},
        dry \in BOOLEAN, creds \in BOOLEAN}

manager == <<platform, initialized, rsyncAvailable, availableProviders, aux>>

\* transfer(): ensureInitialized, selectTransferMethod, emit methodSelected.
\* A selection that throws ends the call before the try block is entered.
StartTransfer ==
    /\ op = "none"
    /\ initialized
    /\ \E source \in Targets, destination \in TransferDestinations,
          options \in TransferOptions :
          LET s == selectTransferMethod(availableProviders, rsyncAvailable,
                                        source, destination, options)
          IN /\ req' = Request(source, destination, options)
             /\ sel' = s
             /\ IF s.kind = "error"
                   THEN /\ outcome' = Threw(s.reason)
                        /\ pc' = "done"
                        /\ events' = events
                   ELSE /\ outcome' = outcome
                        /\ pc' = "prepare"
                        /\ events' = Append(events, "methodSelected")
    /\ op' = "transfer"
    /\ UNCHANGED <<manager, attempt, calls, spawned, child, thrown>>

\* prepare awaited without the `if (!prepared) throw`
Prepare_IgnoresFalse ==
    /\ pc = "prepare"
    /\ \E o \in PrepareOutcomes(sel.provider, req.source, req.destination, req.options) :
          /\ calls' = Append(calls, Call(sel.provider, "prepare", o.result))
          /\ spawned' = spawned \o o.spawns
          /\ req' = [req EXCEPT !.source = o.source, !.destination = o.destination]
          /\ pc' = IF o.result = "throw" THEN "catch" ELSE "transfer"
          /\ thrown' = IF o.result = "throw" THEN ProviderError ELSE thrown
    /\ UNCHANGED <<manager, op, sel, attempt, events, child, outcome>>

\* const prepared = await provider.prepare(...); if (!prepared) throw ...
Prepare ==
    /\ pc = "prepare"
    /\ \E o \in PrepareOutcomes(sel.provider, req.source, req.destination, req.options) :
          /\ calls' = Append(calls, Call(sel.provider, "prepare", o.result))
          /\ spawned' = spawned \o o.spawns
          /\ req' = [req EXCEPT !.source = o.source, !.destination = o.destination]
          /\ pc' = IF o.result = "true" THEN "transfer" ELSE "catch"
          /\ thrown' = CASE o.result = "true"  -> thrown
                          [] o.result = "false" -> PrepareFailedError
                          [] OTHER              -> ProviderError
    /\ UNCHANGED <<manager, op, sel, attempt, events, child, outcome>>

\* const result = await provider.transfer(...).  An uncaught exception raised
\* while the provider waits for its child ends the process with the call pending.
Execute ==
    /\ pc = "transfer"
    /\ \E o \in TransferOutcomes(sel.provider, platform, req.source, req.destination,
                                 req.options) :
          /\ spawned' = spawned \o o.spawns
          /\ child' = o.child
          /\ IF o.result = Uncaught
                THEN /\ calls' = Append(calls, Call(sel.provider, "transfer", "pending"))
                     /\ attempt' = attempt
                     /\ outcome' = Uncaught
                     /\ pc' = "crashed"
                ELSE /\ calls' = Append(calls, Call(sel.provider, "transfer", "returned"))
                     /\ attempt' = o.result
                     /\ outcome' = outcome
                     /\ pc' = "cleanup"
    /\ UNCHANGED <<manager, op, req, sel, events, thrown>>

\* await provider.cleanup(...); emit transferComplete; return enhancedResult
Cleanup ==
    /\ pc = "cleanup"
    /\ \E sp \in CleanupSpawns(sel.provider, req.source, req.destination) :
          spawned' = spawned \o sp
    /\ \E r \in CleanupResults :
          /\ calls' = Append(calls, Call(sel.provider, "cleanup", r))
          /\ IF r = "ok"
                THEN /\ events' = Append(events, "transferComplete")
                     /\ outcome' = Returned([result |-> attempt, methodUsed |-> sel])
                     /\ pc' = "done"
                     /\ thrown' = thrown
                ELSE /\ pc' = "catch"
                     /\ thrown' = CleanupError
                     /\ UNCHANGED <<events, outcome>>
    /\ UNCHANGED <<manager, op, req, sel, attempt, child>>

\* the catch block without its cleanup call
Catch_WithoutCleanup ==
    /\ pc = "catch"
    /\ events' = Append(events, "transferError")
    /\ outcome' = Threw(thrown)
    /\ pc' = "done"
    /\ UNCHANGED <<manager, op, req, sel, attempt, calls, spawned, child, thrown>>

\* catch (error): cleanup with its errors ignored, emit transferError, rethrow
Catch ==
    /\ pc = "catch"
    /\ \E sp \in CleanupSpawns(sel.provider, req.source, req.destination) :
          spawned' = spawned \o sp
    /\ \E r \in CleanupResults :
          calls' = Append(calls, Call(sel.provider, "cleanup", r))
    /\ events' = Append(events, "transferError")
    /\ outcome' = Threw(thrown)
    /\ pc' = "done"
    /\ UNCHANGED <<manager, op, req, sel, attempt, child, thrown>>

Next == Initialize \/ StartTransfer \/ Prepare \/ Execute \/ Cleanup \/ Catch

Spec == Init /\ [][Next]_vars

----------------------------------------------------------------------------
(* Lazy initialization seen at its await points: initialize(),              *)
(* ensureInitialized() and the calls that go through them                   *)

\* how an availability probe (execSync of `which <tool>`, `<tool> /?`,
\* `rsync --version`) can end
ProbeOutcomes == {"ok", "nonzero", "timeout", "missing"}

\* provider.isAvailable(): the execSync sits in try { ... return true } catch { return false }
isAvailable(o) == IF o = "ok" THEN "true" ELSE "false"

\* the PATH probe's error let out of checkCompatibility
checkCompatibility_Propagates(plat, path, alternative) ==
    IF path = "ok" THEN "true" ELSE "throw"

\* RsyncCompatibilityChecker.checkCompatibility(): the PATH probe, then on win32
\* the alternative locations (Git Bash, WSL, Scoop, Chocolatey), each in try/catch
checkCompatibility(plat, path, alternative) ==
    IF path = "ok" THEN "true"
    ELSE IF plat = "win32" /\ alternative = "ok" THEN "true"
    ELSE "false"

Probed(p, answer) == [count |-> p.count + 1, ok |-> p.ok \/ answer = "true"]

\* one invocation of initialize(): pos 0 awaits checkCompatibility, pos i awaits
\* isAvailable() of the i-th platform provider; pending is what the awaited
\* probe answers; ensured tells that the invocation is the initPromise
Run(pos, pending, ensured, status) ==
    [pos |-> pos, pending |-> pending, ensured |-> ensured, status |-> status]

\* The calls that begin with `await this.ensureInitialized()`.  transfer() and
\* estimateTransfer() read rsyncAvailable and availableProviders only through
\* their call of selectTransferMethod, which stands for the three here.
EnsureKinds == {"selectTransferMethod", "getAvailableMethods"}

CallKinds == {"initialize", "createUnifiedTransferManager"} \cup EnsureKinds

InitializationError == "error thrown by initialize"

\* one call of the caller: pc is "awaiting" (a run of initialize), "ready" (the
\* await of an already initialized manager) or "done"; provider is what the
\* call's selection returned and error what the call threw; early tells that
\* the call read rsyncAvailable and availableProviders while initialized was
\* still false
Invocation(kind, at, run, provider, error, early) ==
    [kind |-> kind, pc |-> at, run |-> run, provider |-> provider, error |-> error,
     early |-> early]

Started(kind, at, run) == Invocation(kind, at, run, NoProvider, NoError, FALSE)

\* the requests the selecting calls are made with
InitSources == {Target(FALSE, FALSE, TRUE, FALSE)}
InitDestinations == {Target(FALSE, FALSE, TRUE, FALSE), Target(TRUE, TRUE, FALSE, FALSE)}
InitOptions ==
    {Options(fn, "unset", pm, "unset", "unset", {}, FALSE, FALSE) :
        fn \in BOOLEAN, pm \in Tools \cup {"none"}}

\* createUnifiedTransferManager() hands the manager out only after its
\* initialize() has resolved
FactoryPending ==
    \E i \in 1..Len(invocations) :
        invocations[i].kind = "createUnifiedTransferManager" /\ invocations[i].pc # "done"

\* the invocation of initialize() that initPromise holds
EnsuredRun == CHOOSE r \in 1..Len(runs) : runs[r].ensured

\* initialize() past `if (this.initialized) return`: checkCompatibility() runs
\* its probes before the first await gives control back
StartRun(ensured) ==
    \E answer \in {checkCompatibility(platform, path, alternative) :
                       path \in ProbeOutcomes, alternative \in ProbeOutcomes} :
        /\ runs' = Append(runs, Run(0, answer, ensured, "running"))
        /\ probes' = [probes EXCEPT !["rsync"] = Probed(@, answer)]

flow == <<op, req, sel, pc, attempt, calls, spawned, child, thrown, outcome>>

\* a caller calls initialize(), directly or inside createUnifiedTransferManager()
CallInitialize ==
    /\ Len(invocations) < MaxCalls
    /\ ~FactoryPending
    /\ \E kind \in IF invocations = <<>>
                      THEN {"initialize", "createUnifiedTransferManager"}
                      ELSE {"initialize"} :
          IF initialized
             THEN /\ invocations' = Append(invocations, Started(kind, "done", 0))
                  /\ UNCHANGED <<runs, probes>>
             ELSE /\ StartRun(FALSE)
                  /\ invocations' = Append(invocations, Started(kind, "awaiting", Len(runs) + 1))
    /\ UNCHANGED <<platform, initialized, rsyncAvailable, availableProviders, events,
                   flow, utils, initPromise, listeners>>

\* a caller calls selectTransferMethod, transfer, getAvailableMethods or
\* estimateTransfer: await this.ensureInitialized()
CallThroughEnsure ==
    /\ Len(invocations) < MaxCalls
    /\ ~FactoryPending
    /\ \E kind \in EnsureKinds :
          IF initialized
             THEN /\ invocations' = Append(invocations, Started(kind, "ready", 0))
                  /\ UNCHANGED <<initPromise, runs, probes>>
          ELSE IF initPromise # "null"
             THEN /\ invocations' = Append(invocations, Started(kind, "awaiting", EnsuredRun))
                  /\ UNCHANGED <<initPromise, runs, probes>>
          ELSE /\ initPromise' = "promise"
               /\ StartRun(TRUE)
               /\ invocations' = Append(invocations, Started(kind, "awaiting", Len(runs) + 1))
    /\ UNCHANGED <<platform, initialized, rsyncAvailable, availableProviders, events,
                   flow, utils, listeners>>

\* initialize() resumes after an await: it takes the awaited answer, then calls
\* the next provider's isAvailable() or, past the last provider, emits
\* 'initialized' and sets this.initialized
Continue(r) ==
    /\ runs[r].status = "running"
    /\ LET run == runs[r]
           providers == PlatformProviders(platform)
       IN IF run.pos = 0 /\ run.pending = "throw"
             THEN /\ runs' = [runs EXCEPT ![r] =
                                Run(run.pos, "taken", run.ensured, "rejected")]
                  /\ events' = Append(events, "error")
                  /\ UNCHANGED <<initialized, rsyncAvailable, availableProviders,
                                 probes, listeners>>
             ELSE /\ rsyncAvailable' = IF run.pos = 0 THEN run.pending = "true"
                                                      ELSE rsyncAvailable
                  /\ IF run.pos > 0 /\ run.pending = "true"
                        THEN /\ availableProviders' =
                                   IF InSeq(providers[run.pos], availableProviders)
                                      THEN availableProviders
                                      ELSE Append(availableProviders, providers[run.pos])
                             /\ listeners' = [listeners EXCEPT ![providers[run.pos]] = @ + 1]
                        ELSE UNCHANGED <<availableProviders, listeners>>
                  /\ IF run.pos < Len(providers)
                        THEN /\ \E answer \in {isAvailable(o) : o \in ProbeOutcomes} :
                                   /\ runs' = [runs EXCEPT ![r] =
                                                  Run(run.pos + 1, answer,
                                                      run.ensured, "running")]
                                   /\ probes' = [probes EXCEPT ![providers[run.pos + 1]] =
                                                    Probed(@, answer)]
                             /\ UNCHANGED <<initialized, events>>
                        ELSE /\ runs' = [runs EXCEPT ![r] =
                                           Run(run.pos, "taken", run.ensured, "resolved")]
                             /\ events' = Append(events, "initialized")
                             /\ initialized' = TRUE
                             /\ UNCHANGED probes
    /\ UNCHANGED <<platform, flow, utils, initPromise, invocations>>

\* a call resumes once the initialize() it awaits has settled: initialize and
\* the factory return, the others read rsyncAvailable and availableProviders
Resume(i) ==
    /\ invocations[i].pc \in {"awaiting", "ready"}
    /\ invocations[i].pc = "awaiting" => runs[invocations[i].run].status # "running"
    /\ LET inv == invocations[i]
           done(provider, error, early) ==
               invocations' = [invocations EXCEPT ![i] =
                   Invocation(inv.kind, "done", 0, provider, error, early)]
       IN IF inv.pc = "awaiting" /\ runs[inv.run].status = "rejected"
             THEN done(NoProvider, InitializationError, FALSE)
          ELSE IF inv.kind \notin EnsureKinds
             THEN done(NoProvider, NoError, FALSE)
          ELSE IF inv.kind = "getAvailableMethods"
             THEN done(NoProvider, NoError, ~initialized)
          ELSE \E s \in {selectTransferMethod(availableProviders, rsyncAvailable,
                                               source, destination, options) :
                             source \in InitSources, destination \in InitDestinations,
                             options \in InitOptions} :
                  done(s.provider, IF s.kind = "error" THEN s.reason ELSE NoError,
                       ~initialized)
    /\ UNCHANGED <<platform, initialized, rsyncAvailable, availableProviders, events,
                   flow, utils, initPromise, runs, probes, listeners>>

NextInit ==
    \/ CallInitialize
    \/ CallThroughEnsure
    \/ \E r \in 1..Len(runs) : Continue(r)
    \/ \E i \in 1..Len(invocations) : Resume(i)

SpecInit == Init /\ [][NextInit]_vars

----------------------------------------------------------------------------
(* TransferSessionManager *)

\* the manager, its initialization and the transfer() call in progress
transfers == <<platform, initialized, rsyncAvailable, availableProviders, events, flow,
               initVars>>

\* a session id made of the clock alone
SessionId_FromClockOnly(n, t) == [counter |-> 0, time |-> t]

\* `session_${++this.sessionCounter}_${Date.now()}`
SessionId(n, t) == [counter |-> n, time |-> t]

\* an id no startSession has returned
UnknownSession == [counter |-> -1, time |-> 0]

IssuedIds == {issued[k] : k \in 1..Len(issued)}

SessionCall(name, id, value) == [call |-> name, id |-> id, value |-> value]

\* the clock moves between two calls
Tick ==
    /\ now < MaxClock
    /\ now' = now + 1
    /\ UNCHANGED <<transfers, argumentVars, installVars, extras, clipboardVars, sessionCounter, activeSessions, issued,
                   before, returned>>

\* what startSession() does to the session manager
Started_Session(id) ==
    /\ sessionCounter' = sessionCounter + 1
    /\ issued' = Append(issued, id)

\* startSession(): a session stands for its id, the key it is stored under
StartSession ==
    /\ sessionCounter < MaxSessions
    /\ LET id == SessionId(sessionCounter + 1, now) IN
          /\ Started_Session(id)
          /\ activeSessions' = activeSessions \cup {id}
          /\ returned' = SessionCall("startSession", id, id)
    /\ before' = activeSessions
    /\ UNCHANGED <<transfers, argumentVars, installVars, extras, clipboardVars, now>>

\* endSession(sessionId): null for an id that is not active, else the session,
\* removed from activeSessions
EndSession(id) ==
    /\ IF id \in activeSessions
          THEN /\ activeSessions' = activeSessions \ {id}
               /\ returned' = SessionCall("endSession", id, id)
          ELSE /\ activeSessions' = activeSessions
               /\ returned' = SessionCall("endSession", id, Null)
    /\ before' = activeSessions
    /\ UNCHANGED <<transfers, argumentVars, installVars, extras, clipboardVars, now, sessionCounter, issued>>

\* getSession(sessionId): this.activeSessions.get(sessionId) || null
GetSession(id) ==
    /\ returned' = SessionCall("getSession", id,
                               IF id \in activeSessions THEN id ELSE Null)
    /\ before' = activeSessions
    /\ UNCHANGED <<transfers, argumentVars, installVars, extras, clipboardVars, now, sessionCounter, activeSessions, issued>>

NextSessions ==
    \/ Tick
    \/ StartSession
    \/ \E id \in IssuedIds \cup {UnknownSession} : EndSession(id)
    \/ \E id \in IssuedIds \cup {UnknownSession} : GetSession(id)

SpecSessions == Init /\ [][NextSessions]_vars

----------------------------------------------------------------------------
(* FileOperationsManager: the clipboard *)

\* `copy_${++this.operationCounter}_${Date.now()}` and the fields paste reads
Operation(type, n, t, source) ==
    [id |-> [counter |-> n, time |-> t], type |-> type, source |-> source]

\* how manager.transfer() ends for pasteFiles: a result with success true or
\* false, or an error thrown
PasteTransferResults == {"success", "failure", "threw"}

EmptyClipboardError == "No files in clipboard"

\* sources deleted after every successful transfer
DeletesSources_AfterAnySuccess(type, result) == result = "success"

\* if (this.clipboard.type === 'cut' && result.success) deleteSourceFiles
DeletesSources(type, result) == type = "cut" /\ result = "success"

FileCall(name, operation, result, deleted) ==
    [call |-> name, op |-> operation, result |-> result, deleted |-> deleted]

\* copyFiles / cutFiles: getFileMetadata catches its errors per file, the new
\* operation replaces the clipboard
Place(type) ==
    /\ \E source \in ClipboardSources :
          LET operation == Operation(type, operationCounter + 1, now, source) IN
          /\ clipboard' = operation
          /\ history' = Append(history, FileCall(type, operation, "returned", FALSE))
    /\ operationCounter' = operationCounter + 1
    /\ UNCHANGED <<transfers, argumentVars, installVars, extras, sessionVars, sourceFiles>>

\* copyFiles(source, filePaths)
CopyFiles ==
    /\ Len(history) < MaxOperations
    /\ Place("copy")

\* cutFiles(source, filePaths)
CutFiles ==
    /\ Len(history) < MaxOperations
    /\ Place("cut")

\* clearClipboard()
ClearClipboard ==
    /\ Len(history) < MaxOperations
    /\ clipboard' = Null
    /\ history' = Append(history, FileCall("clear", Null, "returned", FALSE))
    /\ UNCHANGED <<transfers, argumentVars, installVars, extras, sessionVars, operationCounter, sourceFiles>>

\* pasteFiles(destination, sessionManager?): throws on an empty clipboard; else
\* starts a session when a session manager was passed, transfers from the
\* clipboard's source, deletes the source files of a cut whose result has
\* success (a failing rm is only warned about), ends the session, and returns
\* the result or rethrows
PasteFiles ==
    /\ Len(history) < MaxOperations
    /\ IF clipboard = Null
          THEN /\ history' = Append(history, FileCall("paste", Null, EmptyClipboardError, FALSE))
               /\ UNCHANGED <<sessionVars, sourceFiles>>
          ELSE /\ \E result \in PasteTransferResults :
                     LET deletes == DeletesSources(clipboard.type, result) IN
                     /\ history' = Append(history, FileCall("paste", clipboard, result, deletes))
                     /\ \E removed \in BOOLEAN :
                           sourceFiles' = IF deletes /\ removed
                                             THEN [sourceFiles EXCEPT ![clipboard.source] = FALSE]
                                             ELSE sourceFiles
               /\ \E withSessionManager \in BOOLEAN :
                     IF withSessionManager /\ sessionCounter < MaxSessions
                        THEN LET id == SessionId(sessionCounter + 1, now) IN
                             /\ Started_Session(id)
                             /\ before' = activeSessions \cup {id}
                             /\ returned' = SessionCall("endSession", id, id)
                             /\ UNCHANGED <<now, activeSessions>>
                        ELSE UNCHANGED sessionVars
    /\ UNCHANGED <<transfers, argumentVars, installVars, extras, clipboard, operationCounter>>

NextClipboard == Tick \/ CopyFiles \/ CutFiles \/ ClearClipboard \/ PasteFiles

SpecClipboard == Init /\ [][NextClipboard]_vars

----------------------------------------------------------------------------
(* FileOperationsManager.pasteFiles seen at its await points *)

ClipboardGoneError == "TypeError: Cannot read properties of null"

notPaste == <<transfers, argumentVars, installVars, parseVars, retryVars, standalone>>

\* a pasteFiles that never ends its session
PasteEndsSession_Never ==
    UNCHANGED <<activeSessions, before, returned>>

\* sessionManager.endSession(sessionId) in pasteFiles, when both are there
PasteEndsSession ==
    IF paste.session # Null
    THEN /\ activeSessions' = activeSessions \ {paste.session}
         /\ before' = activeSessions
         /\ returned' = SessionCall("endSession", paste.session,
                                    IF paste.session \in activeSessions
                                    THEN paste.session ELSE Null)
    ELSE UNCHANGED <<activeSessions, before, returned>>

EndsMade == IF paste.session # Null THEN paste.ends + 1 ELSE paste.ends

\* pasteFiles(destination, sessionManager?) up to
\* `await createUnifiedTransferManager()`
PasteBegins ==
    /\ paste.at = "idle"
    /\ IF clipboard = Null
       THEN paste' = [paste EXCEPT !.at = "done", !.outcome = Threw(EmptyClipboardError)]
       ELSE \E withSessionManager \in BOOLEAN :
               paste' = [paste EXCEPT !.at = "factory",
                                      !.withSessionManager = withSessionManager]
    /\ UNCHANGED <<notPaste, sessionVars, clipboardVars>>

\* the manager is there: startSession(), then manager.transfer() is called with
\* this.clipboard.source and this.clipboard.files as they are now
PasteTransfers ==
    /\ paste.at = "factory"
    /\ LET id == SessionId(sessionCounter + 1, now) IN
       IF paste.withSessionManager
       THEN /\ Started_Session(id)
            /\ IF clipboard = Null
               THEN \* the TypeError is caught: endSession, rethrown
                    /\ activeSessions' = activeSessions
                    /\ before' = activeSessions \cup {id}
                    /\ returned' = SessionCall("endSession", id, id)
                    /\ paste' = [paste EXCEPT !.at = "done", !.session = id, !.ends = 1,
                                              !.outcome = Threw(ClipboardGoneError)]
               ELSE /\ activeSessions' = activeSessions \cup {id}
                    /\ before' = activeSessions
                    /\ returned' = SessionCall("startSession", id, id)
                    /\ paste' = [paste EXCEPT !.at = "transfer", !.session = id,
                                              !.transferred = clipboard]
            /\ UNCHANGED now
       ELSE /\ paste' = IF clipboard = Null
                        THEN [paste EXCEPT !.at = "done",
                                           !.outcome = Threw(ClipboardGoneError)]
                        ELSE [paste EXCEPT !.at = "transfer", !.transferred = clipboard]
            /\ UNCHANGED sessionVars
    /\ UNCHANGED <<notPaste, clipboardVars>>

\* manager.transfer() has settled: this.clipboard is read again for its type
\* and handed to deleteSourceFiles, then the session is ended
PasteSettles ==
    /\ paste.at = "transfer"
    /\ \E result \in PasteTransferResults :
          IF result = "threw"
          THEN /\ paste' = [paste EXCEPT !.at = "done", !.ends = EndsMade,
                                         !.outcome = Threw(ProviderError)]
               /\ UNCHANGED sourceFiles
          ELSE IF clipboard = Null
          THEN /\ paste' = [paste EXCEPT !.at = "done", !.ends = EndsMade,
                                         !.outcome = Threw(ClipboardGoneError)]
               /\ UNCHANGED sourceFiles
          ELSE LET deletes == DeletesSources(clipboard.type, result) IN
               /\ paste' = [paste EXCEPT !.at = "done", !.ends = EndsMade,
                                         !.deleted = IF deletes THEN clipboard ELSE Null,
                                         !.outcome = Returned(result)]
               /\ \E removed \in BOOLEAN :
                     sourceFiles' = IF deletes /\ removed
                                    THEN [sourceFiles EXCEPT ![clipboard.source] = FALSE]
                                    ELSE sourceFiles
    /\ PasteEndsSession
    /\ UNCHANGED <<notPaste, now, sessionCounter, issued, clipboard, operationCounter,
                   history>>

NextPaste ==
    \/ CopyFiles \/ CutFiles \/ ClearClipboard
    \/ PasteBegins \/ PasteTransfers \/ PasteSettles

SpecPaste == Init /\ [][NextPaste]_vars

----------------------------------------------------------------------------
(* Argument builders *)

\* the options the builders read; a field stands for `options.x` being truthy,
\* for archive, recursive and the preserve options for `options.x !== false`
BuilderOptions(ar, re, pp, pt, pl, ve, co, pr, de, dry) ==
    [archive |-> ar, recursive |-> re, preservePerms |-> pp, preserveTimes |-> pt,
     preserveLinks |-> pl, verbose |-> ve, compress |-> co, progress |-> pr,
     delete |-> de, dryRun |-> dry]

BuilderInputs ==
    {BuilderOptions(ar, re, pp, pt, pl, ve, co, pr, de, FALSE) :
        ar \in BOOLEAN, re \in BOOLEAN, pp \in BOOLEAN, pt \in BOOLEAN, pl \in BOOLEAN,
        ve \in BOOLEAN, co \in BOOLEAN, pr \in BOOLEAN, de \in BOOLEAN}

Builders == {"rsync", "cp", "tar"}

Flag(cond, arg) == IF cond THEN <<arg>> ELSE <<>>

\* RsyncManager.buildCommand; checksum, bandwidth, exclude, include and
\* customArgs are left unset
buildCommand(o) ==
    <<"rsync">>
    \o (IF o.archive THEN <<"-a">>
        ELSE Flag(o.recursive, "-r") \o Flag(o.preserveLinks, "-l")
             \o Flag(o.preservePerms, "-p") \o Flag(o.preserveTimes, "-t"))
    \o Flag(o.verbose, "-v") \o Flag(o.compress, "-z") \o Flag(o.progress, "--progress")
    \o Flag(o.delete, "--delete") \o Flag(o.dryRun, "--dry-run")
    \o <<"source", "destination">>

\* RsyncWrapperProvider.transfer: the RsyncOptions made of the unified options
RsyncOptionsOf(o) == [o EXCEPT !.archive = TRUE, !.progress = TRUE]

\* CpProvider.buildCpArgs
buildCpArgs(o) ==
    Flag(o.recursive, "-R")
    \o (IF o.archive THEN <<"-a">>
        ELSE Flag(o.preservePerms, "--preserve=mode")
             \o Flag(o.preserveTimes, "--preserve=timestamps")
             \o Flag(o.preserveLinks, "--preserve=links"))
    \o Flag(o.verbose, "-v")
    \o <<"-u", "-f", "source", "destination">>

\* TarProvider.buildTarCreateArgs, with the archive path transfer() hands it
buildTarCreateArgs(o) ==
    (IF o.compress THEN <<"-czf", "destination.tar.gz">> ELSE <<"-cf", "destination.tar">>)
    \o Flag(o.preservePerms, "--preserve-permissions")
    \o Flag(o.verbose, "-v")
    \o (IF o.progress THEN <<"--checkpoint=100", "--checkpoint-action=dot">> ELSE <<>>)
    \o <<"-C", "dirname(source)", "basename(source)">>

\* an argument list, or none
Arguments(args) == [any |-> TRUE, args |-> args]
NoArguments == [any |-> FALSE, args |-> <<>>]

\* the argument list the provider's transfer() builds: tar returns its dry-run
\* message before it builds any
ArgumentsBuilt(tool, o) ==
    CASE tool = "rsync" -> Arguments(buildCommand(RsyncOptionsOf(o)))
      [] tool = "cp"    -> Arguments(buildCpArgs(o))
      [] tool = "tar"   -> IF o.dryRun THEN NoArguments
                           ELSE Arguments(buildTarCreateArgs(o))

InitArguments ==
    /\ Constructed
    /\ InstallIdle
    /\ ExtrasIdle
    /\ builder \in Builders
    /\ given \in BuilderInputs
    /\ built = Null

\* the same options are built once with dryRun=true and once with dryRun=false
BuildArguments ==
    /\ built = Null
    /\ built' = [dry  |-> ArgumentsBuilt(builder, [given EXCEPT !.dryRun = TRUE]),
                 real |-> ArgumentsBuilt(builder, [given EXCEPT !.dryRun = FALSE])]
    /\ UNCHANGED <<transfers, sessionVars, clipboardVars, installVars, extras, builder, given>>

NextArguments == BuildArguments

SpecArguments == InitArguments /\ [][NextArguments]_vars

----------------------------------------------------------------------------
(* RsyncCompatibilityChecker: automatic installation *)

InstallationMethod(name, admin, executable) ==
    [method |-> name, requiresAdmin |-> admin, isExecutable |-> executable]

\* getInstallInstructions(platform); method names are cut to their first word
getInstallInstructions(plat) ==
    CASE plat = "win32" ->
            <<InstallationMethod("Chocolatey", TRUE, TRUE),
              InstallationMethod("Scoop", FALSE, TRUE),
              InstallationMethod("WSL2", TRUE, TRUE),
              InstallationMethod("Git Bash", FALSE, TRUE),
              InstallationMethod("Cygwin", FALSE, FALSE)>>
      [] plat = "darwin" ->
            <<InstallationMethod("Homebrew", FALSE, TRUE),
              InstallationMethod("MacPorts", TRUE, TRUE),
              InstallationMethod("Xcode Command Line Tools", FALSE, TRUE)>>
      [] plat = "linux" ->
            <<InstallationMethod("APT", TRUE, TRUE),
              InstallationMethod("YUM", TRUE, TRUE),
              InstallationMethod("DNF", TRUE, TRUE),
              InstallationMethod("Pacman", TRUE, TRUE),
              InstallationMethod("Zypper", TRUE, TRUE),
              InstallationMethod("APK", TRUE, TRUE)>>
      [] OTHER ->
            <<InstallationMethod("Package Manager", TRUE, FALSE)>>

MethodNames(methods) == {methods[i].method : i \in 1..Len(methods)}

\* the methods whose existing rsync isRsyncAlreadyAvailableForMethod looks for
WindowsLocations == {"Git Bash", "WSL2", "Scoop", "Chocolatey"}

\* what the probes of the machine find: the locations that already hold an
\* rsync, and the methods whose prerequisites are there
InstallEnv(already, found) == [already |-> already, found |-> found]

InstallEnvs(plat) ==
    {InstallEnv(a, f) :
        a \in SUBSET (MethodNames(getInstallInstructions(plat)) \cap WindowsLocations),
        f \in SUBSET MethodNames(getInstallInstructions(plat))}

isRsyncAlreadyAvailableForMethod(method, env) == method.method \in env.already

arePrerequisitesMet(method, env) == method.method \in env.found

\* the `ordered` arrays of getOrderedInstallationMethods; on linux the package
\* managers `which` finds, in the order of managerChecks
ManagerChecks == <<"APT", "DNF", "YUM", "Pacman", "Zypper", "APK">>

PreferenceOrder(plat, env) ==
    CASE plat = "win32"  -> <<"Scoop", "Chocolatey", "Git Bash", "WSL2">>
      [] plat = "darwin" -> <<"Homebrew", "MacPorts", "Xcode Command Line Tools">>
      [] plat = "linux"  -> SelectSeq(ManagerChecks, LAMBDA m : m \in env.found)
      [] OTHER           -> <<>>

\* the first loop of orderMethodsByPreference: for each preferred name the
\* first method carrying it
RECURSIVE Preferred(_, _)
Preferred(instructions, preferenceOrder) ==
    IF preferenceOrder = <<>> THEN <<>>
    ELSE LET hits == SelectSeq(instructions, LAMBDA m : m.method = Head(preferenceOrder))
         IN (IF hits = <<>> THEN <<>> ELSE <<Head(hits)>>)
            \o Preferred(instructions, Tail(preferenceOrder))

\* orderMethodsByPreference handing back the list in the order it was given
orderMethodsByPreference_AsGiven(instructions, preferenceOrder) ==
    instructions

\* orderMethodsByPreference: the preferred ones, then the remaining ones
orderMethodsByPreference(instructions, preferenceOrder) ==
    LET ordered == Preferred(instructions, preferenceOrder)
    IN ordered \o SelectSeq(instructions,
                            LAMBDA m : m.method \notin MethodNames(ordered))

getOrderedInstallationMethods(plat, instructions, env) ==
    LET viableMethods ==
            SelectSeq(instructions,
                      LAMBDA m : /\ m.isExecutable
                                 /\ ~isRsyncAlreadyAvailableForMethod(m, env)
                                 /\ arePrerequisitesMet(m, env))
    IN IF plat \in {"win32", "darwin", "linux"}
       THEN orderMethodsByPreference(viableMethods, PreferenceOrder(plat, env))
       ELSE SelectSeq(viableMethods, LAMBDA m : ~m.requiresAdmin)
            \o SelectSeq(viableMethods, LAMBDA m : m.requiresAdmin)

\* how execSync(method.command) ends: it returns, it throws, or it throws the
\* message the catch block knows for this method
CommandOutcomes == {"ok", "threw", "threw-known"}

\* how the second look for rsync ends (Git Bash, WSL)
SecondLooks == {"found", "not-found", "threw"}

Verification(name, found) == [method |-> name, found |-> found]

InstallReturn(success, text, attempted) ==
    [success |-> success, message |-> [text |-> text, attempted |-> attempted]]

\* one turn of the loop after attemptedMethods.push: what it executes, which
\* probes it makes, and whether it returns or continues
Turn(executed, probed, returns, text, error) ==
    [executed |-> executed, probed |-> probed, returns |-> returns, text |-> text,
     error |-> error]

Skipped(error) == Turn(<<>>, <<>>, FALSE, "", error)

TryMethod(method, plat, toolAvailable, run, found, second) ==
    LET name == method.method
    IN IF ~method.isExecutable THEN Skipped("requires manual installation")
       ELSE IF method.requiresAdmin /\ plat # "win32"
            THEN Skipped("requires admin privileges")
       ELSE IF ~toolAvailable THEN Skipped("tool not available")
       ELSE IF run = "ok" THEN
            IF found
            THEN Turn(<<name>>, <<Verification(name, TRUE)>>, TRUE,
                      "Successfully installed rsync using", "")
            ELSE IF name = "Git Bash" /\ second # "threw"
            THEN Turn(<<name>>,
                      <<Verification(name, FALSE), Verification(name, second = "found")>>,
                      second = "found",
                      IF second = "found"
                      THEN "Rsync is available in Git Bash installation" ELSE "",
                      IF second = "found" THEN ""
                      ELSE "installation completed but rsync not found")
            ELSE IF name = "WSL2"
            THEN Turn(<<name>>,
                      <<Verification(name, FALSE), Verification(name, second = "found")>>,
                      second = "found",
                      IF second = "found" THEN "Rsync is available in WSL2" ELSE "",
                      IF second = "found" THEN ""
                      ELSE "installation completed but rsync not found")
            ELSE Turn(<<name>>, <<Verification(name, FALSE)>>, FALSE, "",
                      "installation completed but rsync not found")
       ELSE IF run = "threw-known" /\ name = "Chocolatey"
            THEN Turn(<<name>>, <<>>, FALSE, "", "requires administrator privileges")
       ELSE IF run = "threw-known" /\ name = "Git Bash"
            THEN Turn(<<name>>, <<Verification(name, second = "found")>>,
                      second = "found",
                      IF second = "found"
                      THEN "Rsync found in existing Git Bash installation" ELSE "",
                      IF second = "found" THEN ""
                      ELSE "Git installed but rsync not found in Git Bash")
       ELSE IF run = "threw-known" /\ name = "WSL2"
            THEN IF second = "threw"
                 THEN Turn(<<name, name>>, <<>>, FALSE, "", "WSL rsync installation failed")
                 ELSE Turn(<<name, name>>, <<Verification(name, second = "found")>>,
                           second = "found",
                           IF second = "found"
                           THEN "Successfully installed rsync in existing WSL2 Ubuntu"
                           ELSE "",
                           IF second = "found" THEN ""
                           ELSE "WSL rsync installation completed but not accessible")
       ELSE Turn(<<name>>, <<>>, FALSE, "", "failed")

InitInstall ==
    /\ Constructed
    /\ ArgumentsIdle
    /\ ExtrasIdle
    /\ installEnv \in InstallEnvs(platform)
    /\ installAt = "idle"
    /\ methodsToTry = <<>>
    /\ cursor = 1
    /\ attemptedMethods = <<>>
    /\ executedCommands = <<>>
    /\ verified = <<>>
    /\ lastError = ""
    /\ installResult = Null

\* attemptAutoInstall() up to its loop
AttemptAutoInstall ==
    /\ installAt = "idle"
    /\ LET methods == getOrderedInstallationMethods(
                          platform, getInstallInstructions(platform), installEnv)
       IN /\ methodsToTry' = methods
          /\ IF methods = <<>>
             THEN /\ installAt' = "returned"
                  /\ installResult' =
                        InstallReturn(FALSE,
                            "No automatic installation methods available for this platform",
                            <<>>)
             ELSE /\ installAt' = "loop"
                  /\ installResult' = installResult
    /\ UNCHANGED <<transfers, sessionVars, clipboardVars, argumentVars, extras, installEnv, cursor,
                   attemptedMethods, executedCommands, verified, lastError>>

\* one iteration of `for (const method of methodsToTry)`
LoopTurn ==
    /\ installAt = "loop"
    /\ cursor <= Len(methodsToTry)
    /\ LET method == methodsToTry[cursor]
       IN \E turn \in {TryMethod(method, platform, tool, run, found, second) :
                          tool \in BOOLEAN, run \in CommandOutcomes,
                          found \in BOOLEAN, second \in SecondLooks} :
             /\ attemptedMethods' = Append(attemptedMethods, method.method)
             /\ executedCommands' = executedCommands \o turn.executed
             /\ verified' = verified \o turn.probed
             /\ IF turn.returns
                THEN /\ installAt' = "returned"
                     /\ installResult' = InstallReturn(TRUE, turn.text, <<method.method>>)
                     /\ UNCHANGED <<cursor, lastError>>
                ELSE /\ cursor' = cursor + 1
                     /\ lastError' = turn.error
                     /\ UNCHANGED <<installAt, installResult>>
    /\ UNCHANGED <<transfers, sessionVars, clipboardVars, argumentVars, extras, installEnv,
                   methodsToTry>>

\* the return after the loop
AllMethodsFailed ==
    /\ installAt = "loop"
    /\ cursor > Len(methodsToTry)
    /\ installAt' = "returned"
    /\ installResult' = InstallReturn(FALSE, "All installation methods failed. Attempted:",
                                      attemptedMethods)
    /\ UNCHANGED <<transfers, sessionVars, clipboardVars, argumentVars, extras, installEnv,
                   methodsToTry, cursor, attemptedMethods, executedCommands, verified,
                   lastError>>

NextInstall == AttemptAutoInstall \/ LoopTurn \/ AllMethodsFailed

\* the runtime runs an async function on to its return
SpecInstall == InitInstall /\ [][NextInstall]_vars /\ WF_vars(NextInstall)

----------------------------------------------------------------------------
(* Properties of method selection, checked under SpecSelect *)

Selected == op = "select"
SelectedOk == Selected /\ sel.kind = "ok"

\* preferredMethod names a provider found available whose validateTargets
\* accepts the pair
PreferredNamedAvailableValid ==
    /\ req.options.preferredMethod # "none"
    /\ InSeq(req.options.preferredMethod, availableProviders)
    /\ ValidationErrors(req.options.preferredMethod, req.source, req.destination) = {}

\* C1: selectTransferMethod returns rsync exactly when rsync was found
\* available, preferRsync is not false, forceNative is unset and no available
\* and valid preferredMethod was named; a returned rsync comes with
\* fallbackUsed = false and rsyncAvailable = true, any other returned provider
\* with fallbackUsed = true.
C1_RsyncIffPrimaryConditions ==
    Selected =>
        /\ (sel.kind = "ok" /\ sel.provider = "rsync")
              <=> (/\ rsyncAvailable
                   /\ req.options.preferRsync # "false"
                   /\ ~req.options.forceNative
                   /\ ~PreferredNamedAvailableValid)
        /\ (sel.kind = "ok" /\ sel.provider = "rsync")
              => (~sel.fallbackUsed /\ sel.rsyncAvailable)
        /\ (sel.kind = "ok" /\ sel.provider # "rsync") => sel.fallbackUsed

C1_Witness ==
    /\ SelectedOk
    /\ sel.provider = "rsync"
    /\ req.options.strategy = "network"
    /\ req.destination.isRemote
    /\ req.options.preferredMethod = "scp"

\* C2 as stated: whatever the other options are, a preferredMethod that names an
\* available provider accepting the targets is the provider returned, with the
\* explicit-preference reason.
C2_PreferredAlwaysWins ==
    (Selected /\ PreferredNamedAvailableValid) =>
        /\ sel.kind = "ok"
        /\ sel.provider = req.options.preferredMethod
        /\ sel.reason = "User preferred method"

\* C2 amended: the same, for the calls that do not set forceNative.
C2_PreferredWinsUnlessForced ==
    (Selected /\ PreferredNamedAvailableValid /\ ~req.options.forceNative) =>
        /\ sel.kind = "ok"
        /\ sel.provider = req.options.preferredMethod
        /\ sel.reason = "User preferred method"
        /\ sel.fallbackUsed

C2_Witness ==
    /\ SelectedOk
    /\ PreferredNamedAvailableValid
    /\ ~req.options.forceNative
    /\ rsyncAvailable
    /\ req.options.preferRsync = "true"
    /\ req.options.strategy = "compress"
    /\ req.options.preferredMethod = "cp"
    /\ InSeq("tar", availableProviders)
    /\ sel.provider = "cp"

\* the tool a request names is available: a provider found by its probe, or
\* rsync found by the rsync probe
ToolAvailable(name) ==
    InSeq(name, availableProviders) \/ (name = "rsync" /\ rsyncAvailable)

\* C3: a preferredMethod naming a tool that is not available is never the
\* provider returned, and the call ends as the same call without preferredMethod.
C3_UnavailablePreferredIgnored ==
    (Selected /\ req.options.preferredMethod # "none"
              /\ ~ToolAvailable(req.options.preferredMethod)) =>
        /\ sel.kind = "ok" => sel.provider # req.options.preferredMethod
        /\ sel = selectTransferMethod(availableProviders, rsyncAvailable, req.source,
                     req.destination, [req.options EXCEPT !.preferredMethod = "none"])

C3_Witness ==
    /\ SelectedOk
    /\ req.options.preferredMethod = "tar"
    /\ platform = "linux"
    /\ ~InSeq("tar", availableProviders)
    /\ ValidationErrors("tar", req.source, req.destination) = {}
    /\ sel.provider = "cp"

\* the call went through selectFallbackProvider
ViaFallback ==
    SelectedOk /\ sel.reason \in {"Native tools forced by user",
                                   "Fallback method preferred", "Rsync not available"}

CrossHost == req.source.isRemote \/ req.destination.isRemote

\* available, accepted by validateTargets, and past the cross-host filter
Eligible(name) ==
    /\ InSeq(name, availableProviders)
    /\ ValidationErrors(name, req.source, req.destination) = {}
    /\ CrossHost => (Capabilities(name).supportsNetworkTransfer
                       \/ req.options.allowNetworkFallback = "true")

ScoreOf(name) ==
    calculateProviderScore(name, EffectiveStrategy(req.options), req.options, CrossHost)

\* C4: the provider fallback selection returns is available, valid for the
\* targets, passes the cross-host filter, and no other such provider scores higher.
C4_FallbackPicksBestEligible ==
    ViaFallback =>
        /\ Eligible(sel.provider)
        /\ \A other \in Tools : Eligible(other) => ScoreOf(sel.provider) >= ScoreOf(other)

C4_Witness ==
    /\ ViaFallback
    /\ Cardinality({t \in Tools : Eligible(t)}) >= 3
    /\ sel.provider # availableProviders[1]
    /\ \E other \in Tools : Eligible(other) /\ ScoreOf(other) < ScoreOf(sel.provider)
    /\ req.options.preservePerms

----------------------------------------------------------------------------
(* Properties of transfer(), checked under Spec *)

Transferring == op = "transfer"
Finished == Transferring /\ pc = "done"

\* the steps invoked on providers so far, in order
Steps == [i \in 1..Len(calls) |-> calls[i].step]

\* the selection of this request went to selectFallbackProvider
FallbackPathTaken ==
    \/ req.options.forceNative
    \/ /\ ~PreferredNamedAvailableValid
       /\ ~(rsyncAvailable /\ req.options.preferRsync # "false")

\* C5: when the fallback path is taken and no available provider survives
\* validation and the cross-host filter, selection fails with 'No suitable
\* transfer method found', and transfer() then throws that error having called
\* no provider method, started no subprocess and emitted no event.
C5_NoSuitableMethodStopsTransfer ==
    (Transferring /\ FallbackPathTaken /\ ~(\E t \in Tools : Eligible(t))) =>
        /\ sel.kind = "error"
        /\ outcome = Threw(NoSuitableError)
        /\ pc = "done"
        /\ calls = <<>>
        /\ spawned = <<>>
        /\ events = <<>>

C5_Witness ==
    /\ Finished
    /\ sel.kind = "error"
    /\ availableProviders # <<>>
    /\ CrossHost
    /\ req.options.allowNetworkFallback = "unset"
    /\ outcome = Threw(NoSuitableError)

\* the selected tool's execution failed: prepare returned false, or transfer
\* returned a result with success = false
ExecutionFailed ==
    \/ \E i \in 1..Len(calls) : calls[i].step = "prepare" /\ calls[i].result = "false"
    \/ attempt.kind = "result" /\ ~attempt.success

AnotherCandidate ==
    \E t \in Tools : t # sel.provider /\ Eligible(t)

C7_PrepareTransferCleanupOrder ==
    (Transferring /\ sel.kind = "ok") =>
        /\ \A i \in 1..Len(calls) :
              /\ (i = 1) <=> (calls[i].step = "prepare")
              /\ calls[i].step = "transfer" =>
                    (i = 2 /\ calls[1].step = "prepare" /\ calls[1].result = "true")
              /\ calls[i].step = "cleanup" =>
                    \A j \in i..Len(calls) : calls[j].step = "cleanup"
        /\ pc = "done" => (Len(calls) >= 2 /\ calls[Len(calls)].step = "cleanup")
        /\ attempt.kind = "result" =>
              (Len(calls) >= 2 /\ calls[2].step = "transfer")

C7_Witness ==
    /\ Finished
    /\ Steps = <<"prepare", "cleanup">>
    /\ calls[1].result = "false"
    /\ outcome = Threw(PrepareFailedError)

C9_DryRunNeverSpawns ==
    (Transferring /\ sel.kind = "ok" /\ req.options.dryRun) =>
        /\ spawned = <<>>
        /\ attempt.kind = "result" =>
              /\ attempt.success
              /\ attempt.exitCode = 0
              /\ attempt.output = "would-execute"

\* the child ended badly: killed or crashed (closed without an exit code), or
\* exited with a code its tool reports as failure
ChildFailed ==
    /\ child # NoChild
    /\ \/ child.signalled
       \/ IF sel.provider = "robocopy" THEN child.code >= 8 ELSE child.code # 0

\* C10: a child that exits with a failing code or is killed never yields
\* success = true; the result has success = false.
C10_FailedChildNeverSuccess ==
    (Transferring /\ attempt.kind = "result" /\ ChildFailed) => ~attempt.success

\* the transfer step ran into a binary that was gone at execution time
BinaryMissing ==
    /\ Transferring
    /\ \E i \in 1..Len(calls) : calls[i].step = "transfer"
    /\ child.missing

\* C11: when the tool's binary is missing at execution time, the execution
\* step resolves to a result with success = false and exit code -1, and no
\* exception escapes the execution layer.
C11_SpawnErrorIsFailureResult ==
    BinaryMissing =>
        /\ outcome # Uncaught
        /\ attempt.kind = "result"
        /\ ~attempt.success
        /\ attempt.exitCode = -1

\* C12: a prepare step that returns false is reported by transfer() as a
\* returned result with success = false, never as a thrown error.
C12_PrepareFailureIsResult ==
    (Finished /\ Len(calls) > 0 /\ calls[1].result = "false") =>
        /\ outcome.kind = "returned"
        /\ ~outcome.value.result.success

\* the tool process that decided the result exited with a code of its own
ToolExited ==
    /\ Transferring
    /\ attempt.kind = "result"
    /\ child # NoChild
    /\ ~child.signalled
    /\ ~child.missing

\* C13: for every exit code c of the tool process, a robocopy result has
\* success = (c <= 7), a cp, tar, scp, ditto or rsync result has
\* success = (c = 0), and the result's exitCode is c.
C13_ExitCodeDecidesSuccess ==
    (ToolExited /\ sel.provider \in {"robocopy", "cp", "tar", "scp", "ditto", "rsync"}) =>
        /\ attempt.exitCode = child.code
        /\ attempt.success = (IF sel.provider = "robocopy" THEN child.code <= 7
                                                            ELSE child.code = 0)

----------------------------------------------------------------------------
(* Properties of validation, filtering and scoring, checked under SpecSelect *)

NetworkCapable(name) == Capabilities(name).supportsNetworkTransfer

\* C14: in fallback selection of a cross-host transfer with
\* allowNetworkFallback = false no provider lacking supportsNetworkTransfer is
\* returned, and with no network-capable provider both available and valid
\* selection fails with the no-suitable-provider error.
C14_NetworkFilterExcludesLocalOnly ==
    (Selected /\ FallbackPathTaken /\ CrossHost
              /\ req.options.allowNetworkFallback = "false") =>
        /\ sel.kind = "ok" => NetworkCapable(sel.provider)
        /\ (~\E t \in Tools : /\ InSeq(t, availableProviders)
                              /\ NetworkCapable(t)
                              /\ ValidationErrors(t, req.source, req.destination) = {})
              => sel = SelectionError

C14_Witness ==
    /\ Selected
    /\ FallbackPathTaken
    /\ CrossHost
    /\ req.options.allowNetworkFallback = "false"
    /\ InSeq("cp", availableProviders)
    /\ ValidationErrors("cp", req.source, req.destination) = {}
    /\ InSeq("scp", availableProviders)
    /\ sel = SelectionError

\* C15: validateTargets of cp, tar and ditto rejects every pair with a remote
\* source or destination, so no provider lacking supportsNetworkTransfer is
\* ever selected for a cross-host transfer.
C15_LocalOnlyToolsRejectRemote ==
    (Selected /\ CrossHost) =>
        /\ \A t \in {"cp", "tar", "ditto"} :
              ~validateTargets(t, req.source, req.destination).valid
        /\ sel.kind = "ok" => NetworkCapable(sel.provider)

\* C16: validateTargets of every tool rejects, with a non-empty error list, a
\* local source that does not exist and a local destination whose parent
\* directory does not exist, and never rejects a remote source for not existing.
C16_MissingLocalPathsRejected ==
    Selected =>
        \A t \in Tools :
            LET v == validateTargets(t, req.source, req.destination) IN
            /\ (~req.source.isRemote /\ ~req.source.onDisk) => (~v.valid /\ v.errors # {})
            /\ (~req.destination.isRemote /\ ~req.destination.onDisk)
                  => (~v.valid /\ v.errors # {})
            /\ req.source.isRemote => "source-missing" \notin v.errors

BothLocalAndValid ==
    /\ ~CrossHost
    /\ req.source.onDisk
    /\ req.destination.onDisk

\* C17: on linux without rsync, with cp, tar and scp available, both targets
\* local and valid and strategy most-compatible or unset, fallback selection
\* returns cp whatever the boolean transfer options are; scp is never returned
\* for two local endpoints.
C17_LinuxLocalMostCompatiblePicksCp ==
    /\ (Selected /\ platform = "linux" /\ ~rsyncAvailable
                 /\ availableProviders = <<"cp", "tar", "scp">>
                 /\ BothLocalAndValid
                 /\ req.options.strategy \in {"unset", "most-compatible"}
                 /\ FallbackPathTaken)
          => (sel.kind = "ok" /\ sel.provider = "cp")
    /\ (SelectedOk /\ ~CrossHost) => sel.provider # "scp"

C17_Witness ==
    /\ SelectedOk
    /\ platform = "linux"
    /\ ~rsyncAvailable
    /\ availableProviders = <<"cp", "tar", "scp">>
    /\ BothLocalAndValid
    /\ req.options.strategy = "unset"
    /\ req.options.compress
    /\ req.options.progress
    /\ req.options.delete
    /\ sel.provider = "cp"

\* the score of the request with preservePerms forced to b
ScoreWithPerms(name, b) ==
    calculateProviderScore(name, EffectiveStrategy(req.options),
                           [req.options EXCEPT !.preservePerms = b], CrossHost)

\* C18: requesting preservePerms lowers the score of a candidate lacking
\* supportsPermissions by exactly 5 and leaves the others unchanged; a
\* permission-supporting candidate trailing a non-supporting one by less than 5
\* without the request is preferred to it once preservePerms is requested.
C18_PermissionPenalty ==
    Selected =>
        /\ \A t \in Tools :
              ScoreWithPerms(t, TRUE) =
                 ScoreWithPerms(t, FALSE)
                    - (IF Capabilities(t).supportsPermissions THEN 0 ELSE 5)
        /\ (ViaFallback /\ req.options.preservePerms) =>
              \A a \in Tools, b \in Tools :
                 ( /\ Eligible(a) /\ Eligible(b)
                   /\ Capabilities(a).supportsPermissions
                   /\ ~Capabilities(b).supportsPermissions
                   /\ ScoreWithPerms(b, FALSE) - ScoreWithPerms(a, FALSE) < 5 )
                 => sel.provider # b

C18_Witness ==
    /\ ViaFallback
    /\ req.options.preservePerms
    /\ Eligible("xcopy")
    /\ Eligible("robocopy")
    /\ ScoreWithPerms("xcopy", FALSE) > ScoreWithPerms("robocopy", FALSE)
    /\ sel.provider = "robocopy"

\* position in the platform's provider list
DeclaredAt(name) ==
    CHOOSE i \in 1..Len(PlatformProviders(platform)) : PlatformProviders(platform)[i] = name

----------------------------------------------------------------------------
(* Result normalizers: the counts read out of a tool's output *)

MaxCount == 2
MaxLines == 2

\* an optional number of a TransferResult
Absent == [present |-> FALSE, value |-> 0]
Present(n) == [present |-> TRUE, value |-> n]

\* The captured output, by what the parsers look for in it: a bytes summary
\* with two numbers (rsync: sent and received; robocopy: total and copied, with
\* a unit), a files summary with one count, and its non-empty lines.
Output(hasBytes, first, second, unit, hasFiles, files, lines) ==
    [hasBytes |-> hasBytes, first |-> first, second |-> second, unit |-> unit,
     hasFiles |-> hasFiles, files |-> files, lines |-> lines]

Units == {"", "k"}

Outputs ==
    {Output(FALSE, 0, 0, "", hf, IF hf THEN f ELSE 0, l) :
        hf \in BOOLEAN, f \in 0..MaxCount, l \in 0..MaxLines}
    \cup {Output(TRUE, a, b, u, hf, IF hf THEN f ELSE 0, l) :
            a \in 0..MaxCount, b \in 0..MaxCount, u \in Units,
            hf \in BOOLEAN, f \in 0..MaxCount, l \in 1..MaxLines}

Parsers == {"rsync", "robocopy", "xcopy", "scp"}

\* RobocopyProvider.convertToBytes
convertToBytes(value, unit) == IF unit = "k" THEN value * 1024 ELSE value

\* RobocopyProvider.parseRobocopyStats: both counts start at 0
parseRobocopyStats(output) ==
    [bytesTransferred |-> IF output.hasBytes
                          THEN convertToBytes(output.second, output.unit) ELSE 0,
     filesTransferred |-> IF output.hasFiles THEN output.files ELSE 0]

\* XCopyProvider.parseXCopyOutput
parseXCopyOutput(output) == IF output.hasFiles THEN output.files ELSE 0

\* ScpProvider.parseScpOutput: the number of non-empty lines
parseScpOutput(output) == output.lines

Counts(bytes, files) == [bytesTransferred |-> bytes, filesTransferred |-> files]

\* the bytesTransferred and filesTransferred of the result each tool returns
Normalize(tool, output) ==
    CASE tool = "rsync" ->
            Counts(IF output.hasBytes THEN Present(output.first + output.second)
                   ELSE Absent,
                   IF output.hasFiles THEN Present(output.files) ELSE Absent)
      [] tool = "robocopy" ->
            Counts(Present(parseRobocopyStats(output).bytesTransferred),
                   Present(parseRobocopyStats(output).filesTransferred))
      [] tool = "xcopy" -> Counts(Absent, Present(parseXCopyOutput(output)))
      [] tool = "scp"   -> Counts(Absent, Present(parseScpOutput(output)))

InitParse ==
    /\ Constructed
    /\ ArgumentsIdle
    /\ InstallIdle
    /\ RetryIdle
    /\ PasteIdle
    /\ StandaloneIdle
    /\ parser \in Parsers
    /\ captured \in Outputs
    /\ normalized = Null

\* the process has closed and its result is put together
NormalizeResult ==
    /\ normalized = Null
    /\ normalized' = Normalize(parser, captured)
    /\ UNCHANGED <<transfers, sessionVars, clipboardVars, argumentVars, installVars,
                   retryVars, paste, standalone, parser, captured>>

NextParse == NormalizeResult

SpecParse == InitParse /\ [][NextParse]_vars

----------------------------------------------------------------------------
(* retryFileOperation *)

MaxRetries == 2

\* DEFAULT_RETRY_OPTIONS.retryableErrors, one code standing for the five
DefaultRetryableErrors == {"EBUSY"}

\* the codes an operation fails with: a retryable one, another one, none
ErrorCodes == {"EBUSY", "ENOENT", "none"}

RetryConfig(maxRetries, initialDelay, maxDelay, backoffFactor, retryableErrors) ==
    [maxRetries |-> maxRetries, initialDelay |-> initialDelay, maxDelay |-> maxDelay,
     backoffFactor |-> backoffFactor, retryableErrors |-> retryableErrors]

\* the configurations a caller can pass: maxRetries any number, -1 included
RetryConfigs ==
    {RetryConfig(mr, 10, md, bf, re) :
        mr \in -1..MaxRetries, md \in {15, 50}, bf \in {1, 2},
        re \in {DefaultRetryableErrors, {}}}

\* the error or the value of the n-th invocation
OperationError(code, n) == [error |-> TRUE, code |-> code, of |-> n]
OperationValue(n) == [error |-> FALSE, code |-> "none", of |-> n]

\* the `lastError` never assigned
Undefined == [error |-> TRUE, code |-> "none", of |-> 0]

\* isRetryableError answering true for every error
isRetryableError_Always(error, retryableErrors) ==
    TRUE

isRetryableError(error, retryableErrors) ==
    error.code # "none" /\ error.code \in retryableErrors

RECURSIVE Pow(_, _)
Pow(b, n) == IF n = 0 THEN 1 ELSE b * Pow(b, n - 1)

Min(a, b) == IF a <= b THEN a ELSE b

\* calculateDelay: the delays its jitter of 0 to 30% can give, in whole ms
calculateDelay(attemptNo, initialDelay, maxDelay, backoffFactor) ==
    LET exponentialDelay == initialDelay * Pow(backoffFactor, attemptNo)
    IN {Min(exponentialDelay + jitter, maxDelay) :
           jitter \in 0..((3 * exponentialDelay) \div 10)}

Wait(delay, after) == [delay |-> delay, after |-> after]

InitRetry ==
    /\ Constructed
    /\ ArgumentsIdle
    /\ InstallIdle
    /\ ParseIdle
    /\ PasteIdle
    /\ StandaloneIdle
    /\ retryConfig \in RetryConfigs
    /\ retryAt = "idle"
    /\ retryAttempt = 0
    /\ operationCalls = <<>>
    /\ waits = <<>>
    /\ retryLastError = Undefined
    /\ retryOutcome = Null

notRetry == <<transfers, sessionVars, clipboardVars, argumentVars, installVars, parseVars,
              paste, standalone>>

\* the loop's test `attempt <= config.maxRetries`, and `throw lastError` behind it
LoopTest(attemptNo) ==
    IF attemptNo <= retryConfig.maxRetries
    THEN /\ retryAt' = "try"
         /\ retryOutcome' = retryOutcome
    ELSE /\ retryAt' = "done"
         /\ retryOutcome' = Threw(retryLastError)

\* retryFileOperation(operation, options) up to the loop's first test
CallRetry ==
    /\ retryAt = "idle"
    /\ LoopTest(0)
    /\ UNCHANGED <<notRetry, retryConfig, retryAttempt, operationCalls, waits,
                   retryLastError>>

\* `return await operation()` and the catch block up to `await sleep(delay)`
InvokeOperation ==
    /\ retryAt = "try"
    /\ LET n == Len(operationCalls) + 1
       IN \/ /\ operationCalls' = Append(operationCalls, OperationValue(n))
             /\ retryAt' = "done"
             /\ retryOutcome' = Returned(OperationValue(n))
             /\ UNCHANGED <<waits, retryLastError>>
          \/ \E code \in ErrorCodes :
                LET error == OperationError(code, n)
                IN /\ operationCalls' = Append(operationCalls, error)
                   /\ retryLastError' = error
                   /\ IF \/ ~isRetryableError(error, retryConfig.retryableErrors)
                         \/ retryAttempt = retryConfig.maxRetries
                      THEN /\ retryAt' = "done"
                           /\ retryOutcome' = Threw(error)
                           /\ waits' = waits
                      ELSE /\ retryAt' = "sleeping"
                           /\ retryOutcome' = retryOutcome
                           /\ \E delay \in calculateDelay(retryAttempt,
                                                          retryConfig.initialDelay,
                                                          retryConfig.maxDelay,
                                                          retryConfig.backoffFactor) :
                                 waits' = Append(waits, Wait(delay, n))
    /\ UNCHANGED <<notRetry, retryConfig, retryAttempt>>

\* the sleep's timer fires: attempt++ and the loop's test
WakeUp ==
    /\ retryAt = "sleeping"
    /\ retryAttempt' = retryAttempt + 1
    /\ LoopTest(retryAttempt + 1)
    /\ UNCHANGED <<notRetry, retryConfig, operationCalls, waits, retryLastError>>

NextRetry == CallRetry \/ InvokeOperation \/ WakeUp

SpecRetry == InitRetry /\ [][NextRetry]_vars

----------------------------------------------------------------------------
(* RsyncManager: initialize(), isReady() and the calls that spawn rsync *)

notStandalone == <<transfers, sessionVars, clipboardVars, argumentVars, installVars,
                   parseVars, retryVars, paste>>

NotInitializedError == "RsyncManager not initialized or rsync not available"

CompatibilityResult(found) == [isAvailable |-> found]

\* isReady() written `return this.isInitialized`
isReady_InitializedOnly(m) == m.isInitialized

\* isReady(): this.isInitialized && this.compatibilityResult?.isAvailable === true
isReady(m) ==
    /\ m.isInitialized
    /\ m.compatibilityResult # Null
    /\ m.compatibilityResult.isAvailable

\* a call on the manager: whether isReady() held when it was made, whether it
\* spawned rsync, and the error it rejected with
ManagerCall(method, ready, didSpawn, error) ==
    [method |-> method, ready |-> ready, spawned |-> didSpawn, error |-> error]

\* the head of sync(): throws unless isReady(), else spawns rsync inside the
\* promise executor
syncCall(m, method) ==
    IF ~isReady(m)
       THEN [m EXCEPT !.lastCall = ManagerCall(method, isReady(m), FALSE, NotInitializedError)]
    ELSE [m EXCEPT !.spawns = @ + 1,
                   !.lastCall = ManagerCall(method, isReady(m), TRUE, NoError)]

\* dryRun(): return this.sync(source, destination, {...options, dryRun: true, ...})
dryRun(m, method) == syncCall(m, method)

\* transfer(): the same test, then the destination string, then this.sync(...)
transfer(m, method) ==
    IF ~isReady(m)
       THEN [m EXCEPT !.lastCall = ManagerCall(method, isReady(m), FALSE, NotInitializedError)]
    ELSE syncCall(m, method)

\* copyFolder(), mirrorDirectory(), backup(): options put together, then
\* return this.transfer(source, destination, ...)
copyFolder(m, method) == transfer(m, method)
mirrorDirectory(m, method) == transfer(m, method)
backup(m, method) == transfer(m, method)

ManagerMethods == {"sync", "dryRun", "transfer", "copyFolder", "mirrorDirectory", "backup"}

\* initialize() runs up to `await RsyncCompatibilityChecker.checkCompatibility()`
InitializeBegins ==
    /\ rsyncManager.begun < MaxInitializes
    /\ rsyncManager' = [rsyncManager EXCEPT !.begun = @ + 1, !.initializing = @ + 1]
    /\ UNCHANGED <<notStandalone, sessionStats>>

\* the check has answered: the result is stored, isInitialized set, and then
\* 'ready' emitted and true returned, or 'error' emitted and false returned. An
\* 'error' event without a listener is thrown by emit(), in the try block and
\* again in the catch block, so that the call rejects.
InitializeCompletes ==
    /\ rsyncManager.initializing > 0
    /\ \E found \in BOOLEAN, listening \in BOOLEAN :
          rsyncManager' =
            [rsyncManager EXCEPT !.compatibilityResult = CompatibilityResult(found),
                                 !.isInitialized = TRUE,
                                 !.initializing = @ - 1,
                                 !.lastInitialize = IF found THEN "true"
                                                    ELSE IF listening THEN "false"
                                                    ELSE "rejected"]
    /\ UNCHANGED <<notStandalone, sessionStats>>

\* one of the calls that transfer, made between the steps of initialize()
CallManager ==
    /\ rsyncManager.spawns < MaxSpawns
    /\ \E method \in ManagerMethods :
          rsyncManager' =
            CASE method = "sync"            -> syncCall(rsyncManager, method)
              [] method = "dryRun"          -> dryRun(rsyncManager, method)
              [] method = "transfer"        -> transfer(rsyncManager, method)
              [] method = "copyFolder"      -> copyFolder(rsyncManager, method)
              [] method = "mirrorDirectory" -> mirrorDirectory(rsyncManager, method)
              [] OTHER                      -> backup(rsyncManager, method)
    /\ UNCHANGED <<notStandalone, sessionStats>>

NextReady == InitializeBegins \/ InitializeCompletes \/ CallManager

SpecReady == Init /\ [][NextReady]_vars

----------------------------------------------------------------------------
(* TransferSessionManager: the statistics of its sessions *)

\* a JavaScript number: an integer, or what Math.max() of nothing answers
Number(n) == [finite |-> TRUE, value |-> n]
NegativeInfinity == [finite |-> FALSE, value |-> 0]

\* the files tracked: their size and the milliseconds their transfer took
TrackedFiles == {[size |-> 2, duration |-> 1000], [size |-> 4, duration |-> 1000],
                 [size |-> 4, duration |-> 0]}
Statuses == {"success", "failed", "skipped"}

\* startSession: the session object a new session starts with
NewSession ==
    [totalFiles |-> 0, totalBytes |-> 0, successfulFiles |-> 0, failedFiles |-> 0,
     skippedFiles |-> 0, peakSpeed |-> Number(0), fileTimes |-> <<>>]

\* duration > 0 ? (file.size / (duration / 1000)) : 0
BytesPerSecond(size, duration) ==
    IF duration > 0 THEN (size * 1000) \div duration ELSE 0

FileTransferTiming(size, duration, status) ==
    [size |-> size, bytesPerSecond |-> BytesPerSecond(size, duration), status |-> status]

\* bytesPerSecond > session.peakSpeed
Exceeds(n, peak) == IF peak.finite THEN n > peak.value ELSE TRUE

\* a switch on the status without the 'skipped' case
trackFileTransfer_SkippedUncounted(session, size, duration, status) ==
    LET timing == FileTransferTiming(size, duration, status) IN
    [session EXCEPT
        !.fileTimes = Append(@, timing),
        !.totalFiles = @ + 1,
        !.totalBytes = @ + size,
        !.successfulFiles = IF status = "success" THEN @ + 1 ELSE @,
        !.failedFiles = IF status = "failed" THEN @ + 1 ELSE @,
        !.peakSpeed = IF Exceeds(timing.bytesPerSecond, @)
                         THEN Number(timing.bytesPerSecond) ELSE @]

\* trackFileTransfer on the session it found: the timing pushed, the totals and
\* the status counter advanced, peakSpeed raised
trackFileTransfer(session, size, duration, status) ==
    LET timing == FileTransferTiming(size, duration, status) IN
    [session EXCEPT
        !.fileTimes = Append(@, timing),
        !.totalFiles = @ + 1,
        !.totalBytes = @ + size,
        !.successfulFiles = IF status = "success" THEN @ + 1 ELSE @,
        !.failedFiles = IF status = "failed" THEN @ + 1 ELSE @,
        !.skippedFiles = IF status = "skipped" THEN @ + 1 ELSE @,
        !.peakSpeed = IF Exceeds(timing.bytesPerSecond, @)
                         THEN Number(timing.bytesPerSecond) ELSE @]

\* Math.max(...values): -Infinity when there is no value
MathMax(values) ==
    IF values = {} THEN NegativeInfinity
    ELSE Number(CHOOSE v \in values : \A w \in values : w <= v)

SpeedsOf(session) ==
    {session.fileTimes[i].bytesPerSecond : i \in 1..Len(session.fileTimes)}

\* endSession on the session it found: peakSpeed computed anew from the timings
\* (endTime, totalDuration, averageSpeed and networkSpeed are not recorded here)
endSession(session) == [session EXCEPT !.peakSpeed = MathMax(SpeedsOf(session))]

\* the latest call: its name and id, the sessions and the number of events it
\* found, and what it returned
StatsCall(name, id, found, emittedBefore, answer) ==
    [call |-> name, id |-> id, found |-> found, events |-> emittedBefore,
     returned |-> answer]

Without(f, id) == [k \in DOMAIN f \ {id} |-> f[k]]
With(f, id, v) == [k \in DOMAIN f \cup {id} |-> IF k = id THEN v ELSE f[k]]

\* startSession(): the counter advanced, the session stored, 'sessionStarted' emitted
StartTracked ==
    /\ sessionStats.sessionCounter < MaxTrackedSessions
    /\ LET id == sessionStats.sessionCounter + 1 IN
       sessionStats' =
         [sessionStats EXCEPT
            !.sessionCounter = id,
            !.activeSessions = With(@, id, NewSession),
            !.emitted = @ + 1,
            !.latest = StatsCall("startSession", id, sessionStats.activeSessions,
                                 sessionStats.emitted, Number(id))]
    /\ UNCHANGED <<notStandalone, rsyncManager>>

\* trackFileTransfer(sessionId, file, startTime, endTime, status): returns at
\* once for an id that is not active, else updates the session and emits
\* 'fileTransferred'
TrackFileTransfer ==
    /\ sessionStats.tracks < MaxTracks
    /\ \E id \in 1..MaxTrackedSessions, file \in TrackedFiles, status \in Statuses :
          LET call == StatsCall("trackFileTransfer", id, sessionStats.activeSessions,
                                sessionStats.emitted, Null) IN
          sessionStats' =
            IF id \notin DOMAIN sessionStats.activeSessions
               THEN [sessionStats EXCEPT !.tracks = @ + 1, !.latest = call]
            ELSE [sessionStats EXCEPT
                    !.tracks = @ + 1,
                    !.activeSessions[id] = trackFileTransfer(@, file.size, file.duration, status),
                    !.emitted = @ + 1,
                    !.latest = call]
    /\ UNCHANGED <<notStandalone, rsyncManager>>

\* endSession(sessionId): null for an id that is not active, else the final
\* statistics, the session deleted, 'sessionEnded' emitted, the session returned
EndTracked ==
    /\ \E id \in 1..sessionStats.sessionCounter :
          sessionStats' =
            IF id \notin DOMAIN sessionStats.activeSessions
               THEN [sessionStats EXCEPT
                       !.latest = StatsCall("endSession", id, sessionStats.activeSessions,
                                            sessionStats.emitted, Null)]
            ELSE [sessionStats EXCEPT
                    !.activeSessions = Without(@, id),
                    !.emitted = @ + 1,
                    !.latest = StatsCall("endSession", id, sessionStats.activeSessions,
                                         sessionStats.emitted,
                                         endSession(sessionStats.activeSessions[id]))]
    /\ UNCHANGED <<notStandalone, rsyncManager>>

NextTrack == StartTracked \/ TrackFileTransfer \/ EndTracked

SpecTrack == Init /\ [][NextTrack]_vars

----------------------------------------------------------------------------
(* Properties of the targets of a transfer, checked under Spec *)

\* the target is as the caller built it
AsFound(t) == ~t.mountPoint /\ t.path = "given"

\* C25: once transfer() has returned or thrown, its source and destination
\* targets are as it found them: path, host, user, port and isRemote are
\* unchanged for every provider and a mountPoint attached during preparation
\* has been cleared by the time cleanup has run.
C25_TargetsLeftAsFound ==
    Finished => AsFound(req.source) /\ AsFound(req.destination)

\* the call can take no further step: it returned, threw, or the process ended
\* under it
Ended == Transferring /\ pc \in {"done", "crashed"}

Completions == {"transferComplete", "transferError"}

\* the promise of the provider's transfer step has settled
TransferSettled == \A k \in 1..Len(calls) : calls[k].result # "pending"

\* C26: completion is notified exactly once and in order: the promise
\* RsyncManager.sync returned to a transfer settles, and a transfer() call
\* whose selection succeeded emits 'methodSelected' first and then exactly
\* one of 'transferComplete' and 'transferError'.
C26_CompletionNotifiedExactlyOnce ==
    (Ended /\ sel.kind = "ok") =>
        /\ TransferSettled
        /\ Len(events) = 2
        /\ events[1] = "methodSelected"
        /\ events[2] \in Completions

\* the part of it that holds: 'methodSelected' comes first and at most one
\* completion event follows it
AtMostOneCompletion ==
    /\ Len(events) <= 2
    /\ Len(events) >= 1 => events[1] = "methodSelected"
    /\ Len(events) = 2 => events[2] \in Completions /\ pc = "done"

----------------------------------------------------------------------------
(* Properties of initialization, checked under SpecInit *)

\* no initialize() is between two of its await points
AllSettled == \A r \in 1..Len(runs) : runs[r].status # "running"

\* every probe the tool has had so far failed
EveryProbeFailed(t) == probes[t].count > 0 /\ ~probes[t].ok

DeclaredProviders == {PlatformProviders(platform)[k] : k \in 1..Len(PlatformProviders(platform))}

\* C21: an availability probe that fails, in whichever way, only makes the tool
\* unavailable: no initialize() rejects, no 'error' event is emitted and no
\* call fails with an initialization error; once initialization has completed
\* the available set holds exactly the platform providers a probe found, and
\* rsyncAvailable is what the rsync probe answered; a tool whose probes all
\* failed is never in the available set and never returned by a selection.
C21_ProbeFailureOnlyMeansUnavailable ==
    /\ \A r \in 1..Len(runs) : runs[r].status # "rejected"
    /\ ~InSeq("error", events)
    /\ \A i \in 1..Len(invocations) : invocations[i].error # InitializationError
    /\ (initialized /\ AllSettled) =>
           /\ \A p \in DeclaredProviders : InSeq(p, availableProviders) <=> probes[p].ok
           /\ \A k \in 1..Len(availableProviders) : availableProviders[k] \in DeclaredProviders
           /\ probes["rsync"].count = 1 => rsyncAvailable = probes["rsync"].ok
    /\ \A t \in Tools : EveryProbeFailed(t) =>
           /\ ~InSeq(t, availableProviders)
           /\ t = "rsync" /\ AllSettled => ~rsyncAvailable
           /\ \A i \in 1..Len(invocations) : invocations[i].provider # t
    /\ \A i \in 1..Len(invocations) :
           invocations[i].provider # NoProvider => probes[invocations[i].provider].ok

\* initialization completed although the rsync probe and a provider's probe
\* failed, and a selection made afterwards returned a provider that was found
C21_Witness ==
    /\ initialized /\ AllSettled
    /\ EveryProbeFailed("rsync")
    /\ \E p \in DeclaredProviders : EveryProbeFailed(p)
    /\ \E i \in 1..Len(invocations) :
           /\ invocations[i].kind \in {"initialize", "createUnifiedTransferManager"}
           /\ invocations[i].pc = "done" /\ invocations[i].error = NoError
    /\ \E i \in 1..Len(invocations) :
           /\ invocations[i].kind = "selectTransferMethod"
           /\ invocations[i].provider # NoProvider

\* C22: under any interleaving of concurrent initialize, selectTransferMethod,
\* transfer, getAvailableMethods and estimateTransfer calls on one manager,
\* every tool is probed at most once, every provider's progress and error
\* forwarders are registered at most once, and no call reads the availability
\* set before initialization has completed.
C22_InitializedOnceUnderConcurrency ==
    /\ \A t \in Tools : probes[t].count <= 1 /\ listeners[t] <= 1
    /\ \A i \in 1..Len(invocations) : ~invocations[i].early

----------------------------------------------------------------------------
(* Properties of the clipboard, checked under SpecClipboard *)

Places == {"copy", "cut"}

\* positions of the calls in the history that write the clipboard
Writes == {k \in 1..Len(history) : history[k].call \in Places \cup {"clear"}}

LastWrite == CHOOSE k \in Writes : \A j \in Writes : j <= k

\* the operation of the most recent copy or cut made after the last clear
MostRecentPlaced ==
    IF Writes = {} \/ history[LastWrite].call = "clear" THEN Null
    ELSE history[LastWrite].op

Pastes == {k \in 1..Len(history) : history[k].call = "paste" /\ history[k].op # Null}

\* C23: after any sequence of copyFiles, cutFiles, clearClipboard (and
\* pasteFiles) calls getClipboard returns the operation of the most recent copy
\* or cut made after the last clear, or null when there is none; pasteFiles
\* deletes source files only for a cut whose transfer result has success=true,
\* never for a copy and never when the transfer failed or threw.
C23_ClipboardHoldsLastPlacedAndOnlyCutDeletes ==
    /\ clipboard = MostRecentPlaced
    /\ \A k \in Pastes :
           history[k].deleted => history[k].op.type = "cut" /\ history[k].result = "success"
    /\ \A s \in ClipboardSources :
           ~sourceFiles[s] => \E k \in Pastes : /\ history[k].op.source = s
                                                 /\ history[k].op.type = "cut"
                                                 /\ history[k].result = "success"

\* a copy was pasted successfully and kept its source, a later cut replaced it
\* on the clipboard and its paste removed the source
C23_Witness ==
    /\ \E k \in Pastes : /\ history[k].op.type = "copy" /\ history[k].result = "success"
                         /\ ~history[k].deleted
                         /\ \E j \in Pastes : /\ j > k /\ history[j].op.type = "cut"
                                              /\ history[j].deleted
                                              /\ ~sourceFiles[history[j].op.source]
                                              /\ clipboard = history[j].op

\* C24: the clipboard starts empty, and once pasteFiles has completed
\* successfully for a cut operation the clipboard no longer holds that
\* operation, so no later pasteFiles transfers from, or deletes again, the
\* sources the first paste deleted.
C24_PasteConsumesCut ==
    /\ history = <<>> => clipboard = Null
    /\ \A k \in Pastes :
           (history[k].op.type = "cut" /\ history[k].result = "success") =>
               /\ k = Len(history) => clipboard # history[k].op
               /\ \A j \in Pastes : j > k => history[j].op # history[k].op

----------------------------------------------------------------------------
(* Properties of transfer sessions, checked under SpecSessions *)

Active(id) == id \in activeSessions

\* C30: a session is active exactly from its startSession until its
\* endSession: getSession returns it while it is active and null afterwards;
\* endSession returns the session the first time and null for an unknown or
\* already ended id, and removes no other session; the ids one manager issues
\* are pairwise distinct.
C30_SessionActiveFromStartToEnd ==
    /\ \A j, k \in 1..Len(issued) : j # k => issued[j] # issued[k]
    /\ Len(issued) = sessionCounter
    /\ activeSessions \subseteq IssuedIds
    /\ ~Active(UnknownSession)
    /\ returned # Null =>
           CASE returned.call = "startSession" ->
                   /\ returned.value = issued[Len(issued)]
                   /\ returned.value \notin before
                   /\ activeSessions = before \cup {returned.value}
             [] returned.call = "getSession" ->
                   /\ activeSessions = before
                   /\ returned.value = IF returned.id \in before THEN returned.id ELSE Null
             [] returned.call = "endSession" ->
                   /\ activeSessions = before \ {returned.id}
                   /\ returned.value = IF returned.id \in before THEN returned.id ELSE Null
                   /\ returned.id \notin IssuedIds => returned.value = Null

\* a session was ended while another stayed active, and a second endSession
\* of the ended id has just answered null
C30_Witness ==
    /\ returned # Null
    /\ returned.call = "endSession" /\ returned.value = Null
    /\ returned.id \in IssuedIds
    /\ \E other \in IssuedIds : other # returned.id /\ Active(other)
    /\ now > 0

----------------------------------------------------------------------------
(* The default of allowNetworkFallback, checked under SpecSelect *)

\* C28: allowNetworkFallback defaults to true: a selection made with the
\* option left unset is the selection made with the option set to true.
C28_NetworkFallbackDefaultsToTrue ==
    (Selected /\ req.options.allowNetworkFallback = "unset") =>
        sel = selectTransferMethod(availableProviders, rsyncAvailable,
                                   req.source, req.destination,
                                   [req.options EXCEPT !.allowNetworkFallback = "true"])

----------------------------------------------------------------------------
(* Properties of the argument builders, checked under SpecArguments *)

\* C27: for every tool, rsync included, the argument list built with
\* dryRun=true is identical, element by element, to the one built with
\* dryRun=false from otherwise identical options.
C27_DryRunBuildsSameArguments ==
    (built # Null /\ built.dry.any) => built.dry = built.real

----------------------------------------------------------------------------
(* Properties of automatic installation, checked under SpecInstall *)

\* the platform's preference order over all its methods
PlatformPreference(plat) ==
    CASE plat = "win32"  -> <<"Scoop", "Chocolatey", "Git Bash", "WSL2">>
      [] plat = "darwin" -> <<"Homebrew", "MacPorts", "Xcode Command Line Tools">>
      [] plat = "linux"  -> ManagerChecks
      [] OTHER           -> <<>>

Rank(name) ==
    CHOOSE i \in 1..Len(PlatformPreference(platform)) :
        PlatformPreference(platform)[i] = name

\* the methods that can be run, whose location holds no rsync yet and whose
\* prerequisites are met
ViableNames ==
    LET instructions == getInstallInstructions(platform)
    IN {instructions[i].method : i \in
           {j \in 1..Len(instructions) :
               /\ instructions[j].isExecutable
               /\ instructions[j].method \notin installEnv.already
               /\ instructions[j].method \in installEnv.found}}

ManualNames ==
    LET instructions == getInstallInstructions(platform)
    IN {instructions[i].method : i \in
           {j \in 1..Len(instructions) : ~instructions[j].isExecutable}}

Names(s) == {s[i] : i \in 1..Len(s)}

AutoInstallInOrder ==
    \* the i-th attempt is the i-th viable method of the preference order
    /\ \A i \in 1..Len(attemptedMethods) :
          /\ attemptedMethods[i] \in ViableNames
          /\ Cardinality({n \in ViableNames : Rank(n) < Rank(attemptedMethods[i])}) = i - 1
    \* only attempted methods are executed, and never a manual one
    /\ Names(executedCommands) \subseteq Names(attemptedMethods)
    /\ Names(executedCommands) \cap ManualNames = {}
    \* the first probe that finds rsync ends the loop with success=true
    /\ \A k \in 1..Len(verified) :
          verified[k].found =>
              /\ k = Len(verified)
              /\ installAt = "returned"
              /\ installResult.success
              /\ verified[k].method = attemptedMethods[Len(attemptedMethods)]
    /\ installAt = "returned" =>
          IF installResult.success
          THEN verified # <<>> /\ verified[Len(verified)].found
          ELSE /\ Names(attemptedMethods) = ViableNames
               /\ installResult.message.attempted = attemptedMethods

\* C29: attemptAutoInstall tries the viable methods one at a time in the
\* platform's preference order, each at most once, moving on after a failure
\* or a skip; it never executes a manual method's command; it stops at the
\* first method after which a probe finds rsync and returns success=true only
\* then; otherwise it terminates with success=false and a message naming the
\* attempted methods.
C29_AutoInstallTriesInOrderUntilFound ==
    []AutoInstallInOrder /\ <>(installAt = "returned")

C29_Witness ==
    /\ installAt = "returned"
    /\ installResult.success
    /\ Len(attemptedMethods) >= 2
    /\ Len(executedCommands) >= 2
    /\ Len(verified) >= 2

----------------------------------------------------------------------------
(* Properties of the result normalizers, checked under SpecParse *)

\* C31: for every tool, when the captured output holds no parseable summary
\* the normalized result leaves bytesTransferred and filesTransferred absent;
\* when the summary is there the fields carry the parsed counts.
C31_UnparsedCountsLeftAbsent ==
    normalized # Null =>
        /\ ~captured.hasBytes => ~normalized.bytesTransferred.present
        /\ ~captured.hasFiles => ~normalized.filesTransferred.present
        /\ (captured.hasFiles /\ parser # "scp") =>
              normalized.filesTransferred = Present(captured.files)

----------------------------------------------------------------------------
(* Properties of retryFileOperation, checked under SpecRetry *)

RetryDone == retryAt = "done"

\* C32: for every configuration retryFileOperation invokes the operation at
\* least once and at most maxRetries+1 times, returns the value of the first
\* successful invocation without invoking again, and waits only between two
\* invocations, each wait being at most maxDelay.
C32_RetryInvokesWithinBudget ==
    /\ RetryDone => Len(operationCalls) >= 1
    /\ retryAt # "idle" => Len(operationCalls) <= retryConfig.maxRetries + 1
    /\ \A i \in 1..Len(operationCalls) :
          ~operationCalls[i].error =>
              /\ i = Len(operationCalls)
              /\ retryOutcome = Returned(operationCalls[i])
    /\ \A w \in 1..Len(waits) :
          /\ waits[w].delay <= retryConfig.maxDelay
          /\ waits[w].after = w
          /\ RetryDone => waits[w].after < Len(operationCalls)

\* C33: an invocation failing with an error whose code is not in
\* retryableErrors ends the call with that same error, no invocation and no
\* wait after it; when every invocation failed with a retryable error the
\* call throws the error of the last, maxRetries+1-th, invocation; the call
\* resolves only with the value of an invocation that succeeded.
C33_RetryThrowsWhatTheOperationThrew ==
    /\ \A i \in 1..Len(operationCalls) :
          (/\ operationCalls[i].error
           /\ ~(operationCalls[i].code \in retryConfig.retryableErrors
                /\ operationCalls[i].code # "none")) =>
              /\ i = Len(operationCalls)
              /\ RetryDone
              /\ retryOutcome = Threw(operationCalls[i])
              /\ Len(waits) = i - 1
    /\ (/\ RetryDone
        /\ operationCalls # <<>>
        /\ \A i \in 1..Len(operationCalls) : operationCalls[i].error) =>
          /\ retryOutcome = Threw(operationCalls[Len(operationCalls)])
          /\ (\A i \in 1..Len(operationCalls) :
                 operationCalls[i].code \in retryConfig.retryableErrors)
                => Len(operationCalls) = retryConfig.maxRetries + 1
    /\ (RetryDone /\ retryOutcome.kind = "returned") =>
          /\ operationCalls # <<>>
          /\ ~operationCalls[Len(operationCalls)].error
          /\ retryOutcome = Returned(operationCalls[Len(operationCalls)])

C33_Witness ==
    /\ RetryDone
    /\ Len(operationCalls) = 3
    /\ Len(waits) = 2
    /\ operationCalls[3].code = "ENOENT"
    /\ retryOutcome = Threw(operationCalls[3])

----------------------------------------------------------------------------
(* Properties of a paste interleaved with other calls, checked under SpecPaste *)

\* C34: whatever copyFiles, cutFiles or clearClipboard calls are issued while
\* the paste's transfer is in flight, the files pasteFiles deletes belong to
\* the operation whose files it transferred.
C34_PasteDeletesOnlyWhatItTransferred ==
    paste.deleted # Null => paste.deleted = paste.transferred

\* C39: pasteFiles with an empty clipboard fails with the no-files-in-clipboard
\* error without starting a session or a transfer; when a session manager is
\* supplied, the one session pasteFiles starts is ended exactly once before
\* pasteFiles returns or throws, and is not left active.
C39_PasteEndsItsOwnSession ==
    /\ paste.outcome = Threw(EmptyClipboardError) =>
          /\ paste.session = Null
          /\ paste.transferred = Null
          /\ issued = <<>>
    /\ Len(issued) <= 1
    /\ paste.session # Null =>
          /\ paste.withSessionManager
          /\ issued = <<paste.session>>
          /\ paste.at = "transfer" => (Active(paste.session) /\ paste.ends = 0)
          /\ paste.at = "done" => (~Active(paste.session) /\ paste.ends = 1)
    /\ (paste.at = "done" /\ paste.withSessionManager) => paste.session # Null
    /\ paste.session = Null => (paste.ends = 0 /\ activeSessions = {})

C39_Witness ==
    /\ paste.at = "done"
    /\ paste.session # Null
    /\ paste.outcome = Threw(ProviderError)
    /\ paste.ends = 1
    /\ returned = SessionCall("endSession", paste.session, paste.session)

----------------------------------------------------------------------------
(* Properties of cleanup and of the result of transfer(), checked under Spec *)

CleanupCalls == {i \in 1..Len(calls) : calls[i].step = "cleanup"}

----------------------------------------------------------------------------
(* The method information of a returned result *)

\* the value transfer() returned, when it returned one
TransferReturned == op = "transfer" /\ pc = "done" /\ outcome.kind = "returned"

\* C37: in every result transfer() returns, on success, failure and dry run
\* alike, method is the name of the selected provider, fallbackUsed equals
\* methodUsed.fallbackUsed, and both are false exactly when the provider is rsync
C37_ResultNamesTheSelectedMethod ==
    TransferReturned =>
        LET r == outcome.value IN
        /\ r.result.kind = "result"
        /\ r.result.method = r.methodUsed.provider
        /\ r.result.fallbackUsed = r.methodUsed.fallbackUsed
        /\ (~r.result.fallbackUsed /\ ~r.methodUsed.fallbackUsed)
              <=> r.methodUsed.provider = "rsync"

\* a failed rsync transfer was returned with its method information
C37_Witness ==
    /\ TransferReturned
    /\ outcome.value.methodUsed.provider = "rsync"
    /\ ~outcome.value.result.success

----------------------------------------------------------------------------
(* Properties of the RsyncManager, checked under SpecReady *)

----------------------------------------------------------------------------
(* Properties of the session statistics, checked under SpecTrack *)

RECURSIVE SumOfSizes(_)
SumOfSizes(fileTimes) ==
    IF fileTimes = <<>> THEN 0
    ELSE Head(fileTimes).size + SumOfSizes(Tail(fileTimes))

TrackedSessions == sessionStats.activeSessions

\* C38: in every active session totalFiles is the sum of the three status
\* counters and the number of recorded timings, and totalBytes the sum of the
\* tracked sizes; trackFileTransfer for an id that is not active changes no
\* session and emits no event
C38_SessionTotalsAddUp ==
    /\ \A id \in DOMAIN TrackedSessions :
          /\ TrackedSessions[id].totalFiles
                = TrackedSessions[id].successfulFiles + TrackedSessions[id].failedFiles
                  + TrackedSessions[id].skippedFiles
          /\ TrackedSessions[id].totalFiles = Len(TrackedSessions[id].fileTimes)
          /\ TrackedSessions[id].totalBytes = SumOfSizes(TrackedSessions[id].fileTimes)
    /\ sessionStats.latest # Null
         /\ sessionStats.latest.call = "trackFileTransfer"
         /\ sessionStats.latest.id \notin DOMAIN sessionStats.latest.found
       => /\ TrackedSessions = sessionStats.latest.found
          /\ sessionStats.emitted = sessionStats.latest.events

\* a file was tracked for a session that had ended, beside a session holding a
\* skipped file
C38_Witness ==
    /\ sessionStats.latest # Null
    /\ sessionStats.latest.call = "trackFileTransfer"
    /\ sessionStats.latest.id \notin DOMAIN TrackedSessions
    /\ sessionStats.latest.id <= sessionStats.sessionCounter
    /\ \E id \in DOMAIN TrackedSessions :
          TrackedSessions[id].skippedFiles = 1

\* C40: the session endSession returns has peakSpeed equal to the largest
\* bytesPerSecond of its timings, and 0 when it has none; a session's peakSpeed
\* is never below the bytesPerSecond of one of its timings
C40_PeakSpeedIsTheLargestSpeed ==
    /\ \A id \in DOMAIN TrackedSessions :
          /\ TrackedSessions[id].peakSpeed.finite
          /\ \A v \in SpeedsOf(TrackedSessions[id]) : TrackedSessions[id].peakSpeed.value >= v
    /\ sessionStats.latest # Null
         /\ sessionStats.latest.call = "endSession"
         /\ sessionStats.latest.returned # Null
       => LET session == sessionStats.latest.returned IN
          /\ session.peakSpeed.finite
          /\ session.peakSpeed.value >= 0
          /\ \A v \in SpeedsOf(session) : session.peakSpeed.value >= v
          /\ session.fileTimes # <<>> => session.peakSpeed.value \in SpeedsOf(session)
          /\ session.fileTimes = <<>> => session.peakSpeed.value = 0

==============================================================================
